---- MODULE Spec2Model ----
(***************************************************************************)
(* Model of the LLM price explorer (latest app.js variant): the price      *)
(* record normalizer, the cost calculator, the catalog load and the query  *)
(* pipeline with its rendered rows.                                        *)
(*                                                                         *)
(* JavaScript values are records [t, n, s, b]: t is the type tag           *)
(* ("undef", "null", "bool", "num", "str"), n the number, s the string, b  *)
(* the boolean.  Character-level operations work on Chars[s], the string   *)
(* as a sequence of one-character strings.                                 *)
(* Numbers are integers: prices are whole price units per million tokens,  *)
(* a cache factor f is the integer f * FactorDen, and a cost is counted in *)
(* units of 1 / (1e6 * FactorDen) price units, so that                     *)
(* (tokens / 1e6) * price is the integer tokens * price * FactorDen.       *)
(***************************************************************************)
EXTENDS Integers, Sequences, FiniteSets, TLC

VARIABLES
  pc,        \* where main() is: "fetching", "ready" or "failed"
  fetches,   \* the promises of DATA_FILES.map(fetchJsonAny), per source
  status,    \* text of #dataStatus
  state,     \* the state object of main (window.__state)
  els,       \* values of the input elements and the Batch radio button
  rows,      \* the rows of #tableBody
  url,       \* query parameters of the page URL
  storage,   \* localStorage item llm-prices-state
  customPresets, \* localStorage item llm-prices-custom-presets
  nrec,      \* normalizer harness: the raw record handed to normalize
  nout,      \* normalizer harness: what the call produced
  cin,       \* calculator harness: the arguments (tokens, m, useBatch)
  cout       \* calculator harness: result per cache factor tried

appVars == <<pc, fetches, status, state, els, rows, url, storage,
             customPresets>>

harnessVars == <<nrec, nout, cin, cout>>

vars == <<pc, fetches, status, state, els, rows, url, storage,
          customPresets, nrec, nout, cin, cout>>

(***************************************************************************)
(* JavaScript values                                                       *)
(***************************************************************************)
JUndef == [t |-> "undef", n |-> 0, s |-> "", b |-> FALSE]

JNull == [t |-> "null", n |-> 0, s |-> "", b |-> FALSE]

JNum(x) == [t |-> "num", n |-> x, s |-> "", b |-> FALSE]

JStr(x) == [t |-> "str", n |-> 0, s |-> x, b |-> FALSE]

JBool(x) == [t |-> "bool", n |-> 0, s |-> "", b |-> x]

\* ToBoolean: undefined, null, false, 0 and "" are falsy.
Truthy(v) ==
  CASE v.t = "undef" -> FALSE
    [] v.t = "null" -> FALSE
    [] v.t = "bool" -> v.b
    [] v.t = "num" -> v.n # 0
    [] v.t = "str" -> v.s # ""
    [] OTHER -> TRUE

\* a || b
JOr(a, b) == IF Truthy(a) THEN a ELSE b

\* x == null, x != null (loose equality: null and undefined)
IsNullish(v) == v.t \in {"undef", "null"}

(***************************************************************************)
(* Strings                                                                 *)
(***************************************************************************)
UpperAlpha ==
  <<"A","B","C","D","E","F","G","H","I","J","K","L","M",
    "N","O","P","Q","R","S","T","U","V","W","X","Y","Z">>

LowerAlpha ==
  <<"a","b","c","d","e","f","g","h","i","j","k","l","m",
    "n","o","p","q","r","s","t","u","v","w","x","y","z">>

\* the characters of the strings the model uses: a string value is a TLA+
\* string, and Chars gives its sequence of characters
Chars ==
    ("" :> <<>>)
    @@ ("1" :> <<"1">>)
    @@ ("2" :> <<"2">>)
    @@ ("3" :> <<"3">>)
    @@ ("Acme" :> <<"A", "c", "m", "e">>)
    @@ ("Acme Chat" :> <<"A", "c", "m", "e", " ", "C", "h", "a", "t">>)
    @@ ("AudioCo" :> <<"A", "u", "d", "i", "o", "C", "o">>)
    @@ ("Beta" :> <<"B", "e", "t", "a">>)
    @@ ("Chat" :> <<"C", "h", "a", "t">>)
    @@ ("EUR" :> <<"E", "U", "R">>)
    @@ ("Embeddings-Aware-Chat" :> <<"E", "m", "b", "e", "d", "d", "i", "n", "g", "s", "-", "A", "w", "a", "r", "e", "-", "C", "h", "a", "t">>)
    @@ ("GPT" :> <<"G", "P", "T">>)
    @@ ("GPT-4o-Audio" :> <<"G", "P", "T", "-", "4", "o", "-", "A", "u", "d", "i", "o">>)
    @@ ("USD" :> <<"U", "S", "D">>)
    @@ ("Unknown" :> <<"U", "n", "k", "n", "o", "w", "n">>)
    @@ ("acme" :> <<"a", "c", "m", "e">>)
    @@ ("acme " :> <<"a", "c", "m", "e", " ">>)
    @@ ("all" :> <<"a", "l", "l">>)
    @@ ("audi-o" :> <<"a", "u", "d", "i", "-", "o">>)
    @@ ("free" :> <<"f", "r", "e", "e">>)
    @@ ("gpt-4" :> <<"g", "p", "t", "-", "4">>)
    @@ ("production" :> <<"p", "r", "o", "d", "u", "c", "t", "i", "o", "n">>)
    @@ ("text-embedding-3" :> <<"t", "e", "x", "t", "-", "e", "m", "b", "e", "d", "d", "i", "n", "g", "-", "3">>)
    @@ ("unknown" :> <<"u", "n", "k", "n", "o", "w", "n">>)
    @@ ("z1" :> <<"z", "1">>)
    @@ ("zeta" :> <<"z", "e", "t", "a">>)

AlphabetIndex == [c \in {UpperAlpha[i] : i \in DOMAIN UpperAlpha} |->
                    CHOOSE i \in DOMAIN UpperAlpha : UpperAlpha[i] = c]

LowerChar(c) ==
  IF c \in DOMAIN AlphabetIndex THEN LowerAlpha[AlphabetIndex[c]] ELSE c

\* String.prototype.toLowerCase, on a sequence of characters
toLowerCase(s) ==
  IF s = <<>> THEN <<>> ELSE [i \in 1..Len(s) |-> LowerChar(s[i])]

\* String.prototype.includes, on sequences of characters
includes(s, sub) ==
  \E i \in 0..(Len(s) - Len(sub)) : SubSeq(s, i + 1, i + Len(sub)) = sub

S_audio == <<"a","u","d","i","o">>

S_embedding == <<"e","m","b","e","d","d","i","n","g">>

(***************************************************************************)
(* Raw price records.  A raw record has the five scalar fields and         *)
(* `pricing`; pricing, a mode (standard, batch) and an axis (input,        *)
(* output) are records whose tag t is "undef", "null", "str" (a non-empty  *)
(* string where an object was expected) or "obj".                          *)
(***************************************************************************)
AxisUndef ==
  [t |-> "undef", price_per_million_tokens |-> JUndef, currency |-> JUndef]

AxisObj(p, c) ==
  [t |-> "obj", price_per_million_tokens |-> p, currency |-> c]

ModeOf(tag, i, o) == [t |-> tag, input |-> i, output |-> o]

ModeUndef == ModeOf("undef", AxisUndef, AxisUndef)

PricingOf(tag, st, ba) == [t |-> tag, standard |-> st, batch |-> ba]

PricingUndef == PricingOf("undef", ModeUndef, ModeUndef)

\* ToBoolean of a structured value
ObjTruthy(o) == o.t \in {"str", "obj"}

\* o.name: a property read on a string yields undefined
ModeProp(pricing, name) ==
  IF pricing.t = "obj" THEN pricing[name] ELSE ModeUndef

AxisProp(mode, name) ==
  IF mode.t = "obj" THEN mode[name] ELSE AxisUndef

ScalarProp(axis, name) ==
  IF axis.t = "obj" THEN axis[name] ELSE JUndef

(***************************************************************************)
(* isAudioOrEmbeddingOnly and normalize                                    *)
(***************************************************************************)
\* (v || '').toLowerCase() raises a TypeError when v is truthy and no string
LowerThrows(v) == Truthy(v) /\ v.t # "str"

LowerOrEmpty(v) ==
  IF Truthy(v) /\ v.t = "str" THEN toLowerCase(Chars[v.s]) ELSE <<>>

isAudioOrEmbeddingOnlyThrows(rec) ==
  LowerThrows(rec.model_id) \/ LowerThrows(rec.model_name)

isAudioOrEmbeddingOnlyIdOnly(rec) ==
  LET modelId == LowerOrEmpty(rec.model_id)
  IN  includes(modelId, S_audio) \/ includes(modelId, S_embedding)

isAudioOrEmbeddingOnly(rec) ==
  LET modelId == LowerOrEmpty(rec.model_id)
      modelName == LowerOrEmpty(rec.model_name)
  IN  IF includes(modelId, S_audio) \/ includes(modelName, S_audio)
      THEN TRUE
      ELSE IF includes(modelId, S_embedding) \/ includes(modelName, S_embedding)
      THEN TRUE
      ELSE FALSE

\* (rec.pricing && rec.pricing.<mode>) || {}
PricingMode(rec, name) ==
  LET got == IF ObjTruthy(rec.pricing) THEN ModeProp(rec.pricing, name)
             ELSE ModeUndef
  IN  IF ObjTruthy(got) THEN got ELSE ModeOf("obj", AxisUndef, AxisUndef)

valTruthyOnly(p) ==
  IF ObjTruthy(p) /\ Truthy(ScalarProp(p, "price_per_million_tokens"))
     /\ ScalarProp(p, "price_per_million_tokens").t = "num"
  THEN ScalarProp(p, "price_per_million_tokens")
  ELSE JNull

\* val = p => (p && typeof p.price_per_million_tokens === 'number') ? ... : null
val(p) ==
  IF ObjTruthy(p) /\ ScalarProp(p, "price_per_million_tokens").t = "num"
  THEN ScalarProp(p, "price_per_million_tokens")
  ELSE JNull

\* (std.input && std.input.currency)
AxisCurrency(axis) ==
  IF ObjTruthy(axis) THEN ScalarProp(axis, "currency") ELSE JUndef

normalizeThrows(rec) == isAudioOrEmbeddingOnlyThrows(rec)

\* The model normalize returns (its `raw` back-reference, which nothing
\* reads, is left out).  Meaningful when normalizeThrows(rec) is false.
normalize(rec) ==
  LET std == PricingMode(rec, "standard")
      batch == PricingMode(rec, "batch")
  IN  [ provider |-> JOr(rec.provider, JStr("Unknown")),
        model_id |-> JOr(rec.model_id, JStr("")),
        model_name |-> JOr(rec.model_name, JOr(rec.model_id, JStr("Unknown"))),
        context_length |-> JOr(rec.context_length, JNull),
        availability |-> JOr(rec.availability, JStr("unknown")),
        input |-> val(AxisProp(std, "input")),
        output |-> val(AxisProp(std, "output")),
        batch_input |-> val(AxisProp(batch, "input")),
        batch_output |-> val(AxisProp(batch, "output")),
        currency |-> JOr(AxisCurrency(AxisProp(std, "input")),
                         JOr(AxisCurrency(AxisProp(std, "output")), JStr("USD"))),
        is_filtered |-> isAudioOrEmbeddingOnly(rec) ]

(***************************************************************************)
(* Double-precision arithmetic.  The code computes costs in IEEE 754       *)
(* binary64; a cost value of the model holds the real value of the         *)
(* expression (n, in cost units) and its operands (of), from which the     *)
(* double that the code holds is computed where the two can differ in      *)
(* effect: when two costs are compared whose real values agree, and when   *)
(* toFixed rounds a value that lies on a rounding boundary.                *)
(* Naturals of any size are sequences of digits in base LimbBase, lowest   *)
(* first, without a leading zero digit.                                    *)
(***************************************************************************)
LimbBits == 15

LimbBase == 2^LimbBits

\* A double [neg, m, e] is (-1)^neg * m * 2^e with m of 53 bits, or zero
\* with m = <<>>.
DblZero == [neg |-> FALSE, m |-> <<>>, e |-> 0]

\* Dbl(op, q) is the operation named op applied to the arguments q; the
\* operations apply one another.
RECURSIVE Dbl(_, _)
Dbl(op, q) ==
  CASE
       op = "NatOf" ->
         LET n == q[1]
         IN
           IF n = 0 THEN <<>> ELSE <<n % LimbBase>> \o Dbl("NatOf", <<n \div LimbBase>>)
    [] op = "NatTrim" ->
         LET a == q[1]
         IN
           IF a = <<>> \/ a[Len(a)] # 0 THEN a ELSE Dbl("NatTrim", <<SubSeq(a, 1, Len(a) - 1)>>)
    \* a * k + carry, for k < LimbBase
    [] op = "NatTimes" ->
         LET a == q[1]
             k == q[2]
             carry == q[3]
         IN
           IF a = <<>> THEN Dbl("NatOf", <<carry>>)
           ELSE LET v == Head(a) * k + carry
                IN  <<v % LimbBase>> \o Dbl("NatTimes", <<Tail(a), k, v \div LimbBase>>)
    \* a + b + carry
    [] op = "NatPlus" ->
         LET a == q[1]
             b == q[2]
             carry == q[3]
         IN
           IF a = <<>> /\ b = <<>> THEN Dbl("NatOf", <<carry>>)
           ELSE LET v == (IF a = <<>> THEN 0 ELSE Head(a))
                         + (IF b = <<>> THEN 0 ELSE Head(b)) + carry
                IN  <<v % LimbBase>>
                      \o Dbl("NatPlus", <<IF a = <<>> THEN a ELSE Tail(a),
                                 IF b = <<>> THEN b ELSE Tail(b), v \div LimbBase>>)
    \* a - b - borrow for a >= b + borrow, with leading zero digits
    [] op = "NatMinus" ->
         LET a == q[1]
             b == q[2]
             borrow == q[3]
         IN
           IF a = <<>> THEN <<>>
           ELSE LET v == Head(a) - (IF b = <<>> THEN 0 ELSE Head(b)) - borrow
                IN  <<(v + LimbBase) % LimbBase>>
                      \o Dbl("NatMinus", <<Tail(a), IF b = <<>> THEN b ELSE Tail(b),
                                  IF v < 0 THEN 1 ELSE 0>>)
    \* sign of a - b
    [] op = "NatCmp" ->
         LET a == q[1]
             b == q[2]
         IN
           IF Len(a) # Len(b) THEN (IF Len(a) < Len(b) THEN -1 ELSE 1)
           ELSE LET diff == {i \in DOMAIN a : a[i] # b[i]}
                IN  IF diff = {} THEN 0
                    ELSE LET i == CHOOSE k \in diff : \A j \in diff : j <= k
                         IN  IF a[i] < b[i] THEN -1 ELSE 1
    \* <<a \div d, a % d>> for d * LimbBase < 2^31, the quotient with leading
    \* zero digits
    [] op = "NatDivRem" ->
         LET a == q[1]
             d == q[2]
         IN
           IF a = <<>> THEN <<(<<>>), 0>>
           ELSE LET hi == Dbl("NatDivRem", <<Tail(a), d>>)
                    v == hi[2] * LimbBase + Head(a)
                IN  << <<v \div d>> \o hi[1], v % d >>
    \* the number of binary digits of n
    [] op = "BitsOf" ->
         LET n == q[1]
         IN
           IF n = 0 THEN 0 ELSE 1 + Dbl("BitsOf", <<n \div 2>>)
    [] op = "NatBits" ->
         LET a == q[1]
         IN
           IF a = <<>> THEN 0 ELSE LimbBits * (Len(a) - 1) + Dbl("BitsOf", <<a[Len(a)]>>)
    \* a * 2^s
    [] op = "NatShl" ->
         LET a == q[1]
             s == q[2]
         IN
           IF a = <<>> THEN a
           ELSE [i \in 1..(s \div LimbBits) |-> 0] \o Dbl("NatTimes", <<a, 2^(s % LimbBits), 0>>)
    \* <<a \div 2^s, whether a nonzero bit was shifted out>>
    [] op = "NatShr" ->
         LET a == q[1]
             s == q[2]
         IN
           LET k == s \div LimbBits
               parts(low, dr) ==
                 << Dbl("NatTrim", <<dr[1]>>), dr[2] # 0 \/ \E i \in DOMAIN low : low[i] # 0 >>
           IN  parts(SubSeq(a, 1, IF k < Len(a) THEN k ELSE Len(a)),
                     Dbl("NatDivRem", <<SubSeq(a, k + 1, Len(a)), 2^(s % LimbBits)>>))
    \* the integer of at most three digits
    [] op = "NatToInt" ->
         LET a == q[1]
         IN
           IF a = <<>> THEN 0
           ELSE IF Len(a) = 1 THEN a[1]
           ELSE IF Len(a) = 2 THEN a[1] + LimbBase * a[2]
           ELSE a[1] + LimbBase * (a[2] + LimbBase * a[3])
    \* the double nearest to (-1)^neg * (a + r) * 2^e, ties to even, where
    \* 0 < r < 1 when sticky and r = 0 otherwise (a of 55 bits or more when
    \* sticky)
    [] op = "DblRound" ->
         LET neg == q[1]
             a == q[2]
             e == q[3]
             sticky == q[4]
         IN
           LET \* m of 53 bits, or of 54 after a carry
               normal(m, s) ==
                 IF Dbl("NatBits", <<m>>) > 53
                 THEN [neg |-> neg, m |-> Dbl("NatShr", <<m, 1>>)[1], e |-> e + s + 1]
                 ELSE [neg |-> neg, m |-> m, e |-> e + s]
               \* lead the leading 53 bits, half the bit after them, rest whether a
               \* lower one is set
               nearest(lead, half, rest, s) ==
                 normal(IF half /\ (rest \/ lead[1] % 2 = 1)
                        THEN Dbl("NatPlus", <<lead, <<1>>, 0>>)
                        ELSE lead, s)
               \* q1 the leading 54 bits and whether a lower one is set
               split(q1, s) ==
                 nearest(Dbl("NatShr", <<q1[1], 1>>)[1], q1[1][1] % 2 = 1, q1[2] \/ sticky, s)
               ofLength(len) ==
                 IF len <= 53
                 THEN [neg |-> neg, m |-> Dbl("NatShl", <<a, 53 - len>>), e |-> e - (53 - len)]
                 ELSE split(Dbl("NatShr", <<a, len - 54>>), len - 53)
           IN  IF a = <<>> THEN DblZero ELSE ofLength(Dbl("NatBits", <<a>>))
    \* the double of an integer
    [] op = "DblOfInt" ->
         LET k == q[1]
         IN
           Dbl("DblRound", <<k < 0, Dbl("NatOf", <<IF k < 0 THEN 0 - k ELSE k>>), 0, FALSE>>)
    \* x * k for a double x and an integer k, |k| < 2^30
    [] op = "DblTimesInt" ->
         LET x == q[1]
             k == q[2]
         IN
           LET a == IF k < 0 THEN 0 - k ELSE k
               p == Dbl("NatPlus", <<Dbl("NatTimes", <<x.m, a % LimbBase, 0>>),
                            Dbl("NatShl", <<Dbl("NatTimes", <<x.m, a \div LimbBase, 0>>), LimbBits>>), 0>>)
           IN  Dbl("DblRound", <<x.neg # (k < 0), Dbl("NatTrim", <<p>>), x.e, FALSE>>)
    \* k / 1e6 for an integer k
    [] op = "DblPerMillion" ->
         LET k == q[1]
         IN
           LET quotient(d1, d2) ==
                 Dbl("DblRound", <<k < 0, Dbl("NatTrim", <<d2[1]>>), 0 - 5 * LimbBits,
                          d1[2] # 0 \/ d2[2] # 0>>)
               thousandth(d1) == quotient(d1, Dbl("NatDivRem", <<d1[1], 1000>>))
           IN  thousandth(Dbl("NatDivRem", <<Dbl("NatShl", <<Dbl("NatOf", <<IF k < 0 THEN 0 - k ELSE k>>),
                                           5 * LimbBits>>), 1000>>))
    \* sign of |x| - |y|
    [] op = "DblCmpAbs" ->
         LET x == q[1]
             y == q[2]
         IN
           IF x.m = <<>> \/ y.m = <<>>
           THEN (IF x.m # <<>> THEN 1 ELSE IF y.m # <<>> THEN -1 ELSE 0)
           ELSE IF x.e # y.e THEN (IF x.e < y.e THEN -1 ELSE 1)
           ELSE Dbl("NatCmp", <<x.m, y.m>>)
    \* sign of x - y
    [] op = "DblCmp" ->
         LET x == q[1]
             y == q[2]
         IN
           LET xn == x.neg /\ x.m # <<>>
               yn == y.neg /\ y.m # <<>>
           IN  IF xn # yn THEN (IF xn THEN -1 ELSE 1)
               ELSE IF xn THEN 0 - Dbl("DblCmpAbs", <<x, y>>) ELSE Dbl("DblCmpAbs", <<x, y>>)
    \* x + y
    [] op = "DblPlus" ->
         LET x == q[1]
             y == q[2]
         IN
           LET sum(big, small, a) ==
                 Dbl("DblRound", <<big.neg,
                          Dbl("NatTrim", <<IF big.neg = small.neg THEN Dbl("NatPlus", <<a, small.m, 0>>)
                                  ELSE Dbl("NatMinus", <<a, small.m, 0>>)>>),
                          small.e, FALSE>>)
               ordered(big, small) ==
                 IF big.e - small.e > 60 THEN big
                 ELSE sum(big, small, Dbl("NatShl", <<big.m, big.e - small.e>>))
               swapped(xIsBig) ==
                 ordered(IF xIsBig THEN x ELSE y, IF xIsBig THEN y ELSE x)
           IN  IF x.m = <<>> THEN y
               ELSE IF y.m = <<>> THEN x
               ELSE swapped(Dbl("DblCmpAbs", <<x, y>>) >= 0)
    \* the digits of |x|.toFixed(d): the integer n with n / 10^d nearest to |x|,
    \* the larger n when two are as near
    [] op = "DblFixed" ->
         LET x == q[1]
             d == q[2]
         IN
           LET scaled(a) ==
                 IF x.e >= 0 THEN Dbl("NatToInt", <<Dbl("NatShl", <<a, x.e>>)>>)
                 ELSE (Dbl("NatToInt", <<Dbl("NatShr", <<a, (0 - x.e) - 1>>)[1]>>) + 1) \div 2
           IN  IF x.m = <<>> THEN 0 ELSE scaled(Dbl("NatTimes", <<x.m, 10^d, 0>>))
    \* the double a cost value stands for: ((in/1e6)*inPrice
    \* + (cached/1e6)*inPrice*factor) + (out/1e6)*outPrice, times the monthly
    \* requests for a monthly cost.  The factor is factor / FactorDen, a
    \* multiplication by the integer and an exact halving.
    [] op = "Double" ->
         LET v == q[1]
         IN
           LET o == v.of
               half(whole) == IF whole.m # <<>> THEN [whole EXCEPT !.e = @ - 1]
                              ELSE DblZero
               pin == IF Truthy(o.inPrice)
                      THEN Dbl("DblTimesInt", <<Dbl("DblPerMillion", <<o.tokens.in>>), o.inPrice.n>>)
                      ELSE DblZero
               pcached == IF Truthy(o.inPrice)
                          THEN half(Dbl("DblTimesInt", <<Dbl("DblTimesInt", <<Dbl("DblPerMillion", <<o.tokens.cached>>),
                                                            o.inPrice.n>>), o.factor>>))
                          ELSE DblZero
               pout == IF Truthy(o.outPrice)
                       THEN Dbl("DblTimesInt", <<Dbl("DblPerMillion", <<o.tokens.out>>), o.outPrice.n>>)
                       ELSE DblZero
               monthly(cost) == IF IsNullish(o.times) THEN cost
                                ELSE Dbl("DblTimesInt", <<cost, o.times.n>>)
           IN  monthly(Dbl("DblPlus", <<Dbl("DblPlus", <<pin, pcached>>), pout>>))

(***************************************************************************)
(* Cost calculator                                                         *)
(***************************************************************************)
\* the 0.5 of `cacheFactor ?? 0.5`, in units of 1 / FactorDen
DefaultCacheFactor == 1

FactorDen == 2 * DefaultCacheFactor

\* (n / 1e6) * price, in cost units
PerMillion(n, price) == n * price * FactorDen

\* legacy resolution, no fallback: useBatch ? m.batch_x : m.x
ResolvePriceNoFallback(std, batch, useBatch) ==
  IF useBatch THEN batch ELSE std

\* useBatch ? (m.batch_x != null ? m.batch_x : m.x) : m.x
ResolvePrice(std, batch, useBatch) ==
  IF useBatch THEN (IF ~IsNullish(batch) THEN batch ELSE std) ELSE std

\* an input price that ignores the mode
inPriceStandardOnly(m, useBatch) == m.input

inPriceOf(m, useBatch) == ResolvePrice(m.input, m.batch_input, useBatch)

outPriceOf(m, useBatch) == ResolvePrice(m.output, m.batch_output, useBatch)

\* cacheFactor ?? 0.5
FactorOrDefault(cacheFactor) ==
  IF IsNullish(cacheFactor) THEN DefaultCacheFactor ELSE cacheFactor.n

CostTerms(tokens, inPrice, outPrice, factor) ==
  LET pin == IF Truthy(inPrice) THEN PerMillion(tokens.in, inPrice.n) ELSE 0
      pcached == IF Truthy(inPrice)
                 THEN tokens.cached * inPrice.n * factor ELSE 0
      pout == IF Truthy(outPrice) THEN PerMillion(tokens.out, outPrice.n) ELSE 0
  IN  pin + pcached + pout

\* the number pin + pcached + pout: its real value in cost units and the
\* operands of the expression
CostValue(tokens, inPrice, outPrice, factor) ==
  [t |-> "num", n |-> CostTerms(tokens, inPrice, outPrice, factor),
   s |-> "", b |-> FALSE,
   of |-> [tokens |-> tokens, inPrice |-> inPrice, outPrice |-> outPrice,
           factor |-> factor, times |-> JNull]]

calcCostWithCachedNullIfAny(tokens, m, useBatch, cacheFactor) ==
  LET inPrice == inPriceOf(m, useBatch)
      outPrice == outPriceOf(m, useBatch)
  IN  IF IsNullish(inPrice) \/ IsNullish(outPrice) THEN JNull
      ELSE CostValue(tokens, inPrice, outPrice,
                          FactorOrDefault(cacheFactor))

calcCostWithCachedNoCached(tokens, m, useBatch, cacheFactor) ==
  LET inPrice == inPriceOf(m, useBatch)
      outPrice == outPriceOf(m, useBatch)
  IN  IF IsNullish(inPrice) /\ IsNullish(outPrice) THEN JNull
      ELSE CostValue([tokens EXCEPT !.cached = 0], inPrice, outPrice,
                          FactorOrDefault(cacheFactor))

calcCostWithCached(tokens, m, useBatch, cacheFactor) ==
  LET inPrice == inPriceOf(m, useBatch)
      outPrice == outPriceOf(m, useBatch)
  IN  IF IsNullish(inPrice) /\ IsNullish(outPrice) THEN JNull
      ELSE CostValue(tokens, inPrice, outPrice,
                          FactorOrDefault(cacheFactor))

\* calcCost(tokensIn, tokensOut, m, useBatch): the cost without cached tokens
calcCost(tokensIn, tokensOut, m, useBatch) ==
  LET inPrice == inPriceOf(m, useBatch)
      outPrice == outPriceOf(m, useBatch)
  IN  IF IsNullish(inPrice) /\ IsNullish(outPrice) THEN JNull
      ELSE CostValue([in |-> tokensIn, cached |-> 0, out |-> tokensOut],
                          inPrice, outPrice, 0)

\* an earlier variant that would fall back to the standard price
legacyPriceWithFallback(std, batch, useBatch) ==
  IF useBatch THEN (IF ~IsNullish(batch) THEN batch ELSE std) ELSE std

\* the earlier variants: useBatch ? m.batch_x : m.x
legacyPrice(std, batch, useBatch) == IF useBatch THEN batch ELSE std

\* calcCost of the earlier variants
calcCostLegacy(tokensIn, tokensOut, m, useBatch) ==
  LET inPrice == legacyPrice(m.input, m.batch_input, useBatch)
      outPrice == legacyPrice(m.output, m.batch_output, useBatch)
  IN  IF IsNullish(inPrice) /\ IsNullish(outPrice) THEN JNull
      ELSE CostValue([in |-> tokensIn, cached |-> 0, out |-> tokensOut],
                          inPrice, outPrice, 0)

\* calcCostWithCached of the earlier variant
calcCostWithCachedLegacy(tokens, m, useBatch, cacheFactor) ==
  LET inPrice == legacyPrice(m.input, m.batch_input, useBatch)
      outPrice == legacyPrice(m.output, m.batch_output, useBatch)
  IN  IF IsNullish(inPrice) /\ IsNullish(outPrice) THEN JNull
      ELSE CostValue(tokens, inPrice, outPrice,
                          FactorOrDefault(cacheFactor))

calcMonthlyRequestsNoGuard(rateValue) == rateValue * 30

\* if(!rateValue || rateValue <= 0) return 0; return rateValue * 30;
calcMonthlyRequests(rateValue) ==
  IF rateValue = 0 \/ rateValue <= 0 THEN 0 ELSE rateValue * 30

(***************************************************************************)
(* String conversion and comparison                                        *)
(***************************************************************************)
Digits == <<"0","1","2","3","4","5","6","7","8","9">>

RECURSIVE NatToStr(_)
\* String(n) for an integer n >= 0
NatToStr(n) ==
  IF n < 10 THEN <<Digits[n + 1]>>
  ELSE NatToStr(n \div 10) \o <<Digits[(n % 10) + 1]>>

\* String(v), as a template literal `${v}` yields it
ToStr(v) ==
  CASE v.t = "str" -> Chars[v.s]
    [] v.t = "num" -> IF v.n < 0 THEN <<"-">> \o NatToStr(0 - v.n)
                      ELSE NatToStr(v.n)
    [] v.t = "bool" -> IF v.b THEN <<"t","r","u","e">>
                       ELSE <<"f","a","l","s","e">>
    [] v.t = "null" -> <<"n","u","l","l">>
    [] OTHER -> <<"u","n","d","e","f","i","n","e","d">>

Sign(x) == IF x < 0 THEN -1 ELSE IF x > 0 THEN 1 ELSE 0

\* Collation order of localeCompare (root locale): blanks and punctuation,
\* then digits, then letters; case decides only between strings whose
\* letters agree, lower case first.
CollationOrder == <<" ", "-", ":", ".">> \o Digits \o LowerAlpha

CollationIndex == [c \in {CollationOrder[i] : i \in DOMAIN CollationOrder} |->
                     CHOOSE i \in DOMAIN CollationOrder : CollationOrder[i] = c]

\* the weight of a character at a collation level: its place in the
\* collation order at the primary level; at the case level 0 for a
\* lower-case or caseless character, 1 for an upper-case one
Weight(c, level) ==
  IF level = "primary"
  THEN (IF LowerChar(c) \in DOMAIN CollationIndex
        THEN CollationIndex[LowerChar(c)] ELSE 0)
  ELSE (IF c \in DOMAIN AlphabetIndex THEN 1 ELSE 0)

\* lexicographic comparison of two sequences by the weights of a level
LexCompare(x, y, level) ==
  LET n == IF Len(x) < Len(y) THEN Len(x) ELSE Len(y)
      diff == {i \in 1..n : Weight(x[i], level) # Weight(y[i], level)}
  IN  IF diff # {}
      THEN LET i == CHOOSE k \in diff : \A j \in diff : k <= j
           IN  Sign(Weight(x[i], level) - Weight(y[i], level))
      ELSE Sign(Len(x) - Len(y))

\* x.localeCompare(y), as a sign
localeCompare(x, y) ==
  LET primary == LexCompare(x, y, "primary")
  IN  IF primary # 0 THEN primary ELSE LexCompare(x, y, "case")

\* Array.prototype.sort with a comparator that is a consistent weak order:
\* the stable sort puts element i after the elements that compare below it
\* and after the earlier elements that compare equal to it.
\* a sort that puts an element before the earlier elements it ties with
SortPositionTiesReversed(seq, c, i) ==
  1 + Cardinality({j \in DOMAIN seq : c[j, i] < 0})
    + Cardinality({j \in DOMAIN seq : j > i /\ c[j, i] = 0})

\* c[j, i] is the sign of the comparator on the elements at j and i.
SortPosition(seq, c, i) ==
  1 + Cardinality({j \in DOMAIN seq : c[j, i] < 0})
    + Cardinality({j \in DOMAIN seq : j < i /\ c[j, i] = 0})

\* (`\o <<>>` makes a function over 1..n the tuple of its values)
StableSort(seq, c) ==
  IF seq = <<>> THEN <<>>
  ELSE LET pos == [i \in DOMAIN seq |-> SortPosition(seq, c, i)] \o <<>>
       IN  [p \in 1..Len(seq) |-> seq[CHOOSE i \in DOMAIN seq : pos[i] = p]]
             \o <<>>

\* Array.prototype.slice(0, n)
Take(seq, n) == SubSeq(seq, 1, IF n < Len(seq) THEN n ELSE Len(seq))

(***************************************************************************)
(* Query pipeline and rendering.  Rows are handled as indices into          *)
(* st.data: an index stands for the model object the code passes around.    *)
(***************************************************************************)
\* `${m.provider}::${m.model_id || m.model_name}`
ModelKey(m) == ToStr(m.provider) \o <<":", ":">> \o ToStr(JOr(m.model_id, m.model_name))

\* `${rec.provider || ''}::${rec.model_id || rec.model_name}`
RawKey(rec) ==
  ToStr(JOr(rec.provider, JStr(""))) \o <<":", ":">>
    \o ToStr(JOr(rec.model_id, rec.model_name))

\* calcCostWithCached(tokens, m, useBatch, state.cacheFactor)
CostOf(st, m) ==
  calcCostWithCached(st.globalTokens, m, st.useBatch, st.cacheFactor)

\* cost != null ? cost * monthlyRequests : null
MonthlyOf(st, cost) ==
  IF ~IsNullish(cost)
  THEN [cost EXCEPT !.n = @ * calcMonthlyRequests(st.rateValue),
                    !.of.times = JNum(calcMonthlyRequests(st.rateValue))]
  ELSE JNull

\* x - y as a sign, for cost values: null stands for
\* Number.POSITIVE_INFINITY, and Infinity - Infinity (NaN) counts as 0, as
\* Array.prototype.sort takes it.  Two doubles whose real values differ (by
\* a cost unit or more) differ the same way; on real values that agree the
\* doubles decide, which are equal when the operands are.
InfinityDiff(x, y) ==
  IF IsNullish(x) /\ IsNullish(y) THEN 0
  ELSE IF IsNullish(x) THEN 1
  ELSE IF IsNullish(y) THEN -1
  ELSE IF x.n # y.n THEN Sign(x.n - y.n)
  ELSE IF x.of = y.of THEN 0
  ELSE Dbl("DblCmp", <<Dbl("Double", <<x>>), Dbl("Double", <<y>>)>>)

\* the null-last comparison of the input and output columns
NullLastNumeric(aVal, bVal) ==
  IF IsNullish(aVal) /\ IsNullish(bVal) THEN 0
  ELSE IF IsNullish(aVal) THEN 1
  ELSE IF IsNullish(bVal) THEN -1
  ELSE Sign(aVal.n - bVal.n)

\* the comparison of a plain field a[key], b[key]
PlainCompare(av, bv) ==
  IF IsNullish(av) /\ IsNullish(bv) THEN 0
  ELSE IF IsNullish(av) THEN 1
  ELSE IF IsNullish(bv) THEN -1
  ELSE IF av.t = "num" /\ bv.t = "num" THEN Sign(av.n - bv.n)
  ELSE localeCompare(ToStr(av), ToStr(bv))

\* cmp(a, b) of applyFilterSort
cmp(st, a, b) ==
  LET key == st.sort.key
      \* getCost(m), getMonthlyCost(m)
      shown(m) == IF key = "cost" THEN CostOf(st, m)
                  ELSE MonthlyOf(st, CostOf(st, m))
  IN  CASE key \in {"cost", "monthly"} -> InfinityDiff(shown(a), shown(b))
        [] key = "input" ->
             NullLastNumeric(inPriceOf(a, st.useBatch), inPriceOf(b, st.useBatch))
        [] key = "output" ->
             NullLastNumeric(outPriceOf(a, st.useBatch), outPriceOf(b, st.useBatch))
        [] OTHER -> PlainCompare(a[key], b[key])

\* (a,b) => dir==='asc' ? cmp(a,b) : -cmp(a,b)
DirectedCmp(st, a, b) ==
  (IF st.sort.dir = "asc" THEN 1 ELSE -1) * cmp(st, a, b)

\* m.provider.toLowerCase() raises a TypeError when the provider is not a
\* string (normalize keeps any truthy rec.provider; model_name and model_id
\* are strings once normalize has returned)
MatchesTextThrows(m) == m.provider.t # "str"

\* the predicate of the text filter, for a model it does not raise on
MatchesText(m, searchTerm) ==
  \/ includes(toLowerCase(Chars[m.provider.s]), searchTerm)
  \/ includes(toLowerCase(Chars[m.model_name.s]), searchTerm)
  \/ includes(toLowerCase(Chars[m.model_id.s]), searchTerm)
  \/ (Truthy(m.context_length) /\ includes(ToStr(m.context_length), searchTerm))

RECURSIVE ParseDigits(_)
\* parseInt of a string of decimal digits
ParseDigits(s) ==
  IF s = <<>> THEN 0
  ELSE 10 * ParseDigits(SubSeq(s, 1, Len(s) - 1))
       + ((CHOOSE d \in DOMAIN Digits : Digits[d] = s[Len(s)]) - 1)

KeepAll(st, i) == TRUE

\* state.data.filter(m => !m.is_filtered)
KeepUnfiltered(st, i) == ~st.data[i].is_filtered

\* a comparator under which all models tie
ByNothing(st, idxs) == [i \in DOMAIN idxs, j \in DOMAIN idxs |-> 0]

\* (a, b) => getCost(a) - getCost(b) on the models at idxs, by position
ByCost(st, idxs) ==
  LET cost == [i \in DOMAIN idxs |-> CostOf(st, st.data[idxs[i]])] \o <<>>
  IN  [i \in DOMAIN idxs, j \in DOMAIN idxs |-> InfinityDiff(cost[i], cost[j])]

\* The steps of applyFilterSort work on `rows`, here the sequence of the
\* indices in state.data of the models it holds.
\* let rows = state.data.filter(m => !m.is_filtered)
UnfilteredRows(st) ==
  SelectSeq([i \in 1..Len(st.data) |-> i], LAMBDA i : KeepUnfiltered(st, i))

\* if(state.filterText){ ... rows = rows.filter(...) }
SearchedRows(st) ==
  LET found(unfiltered) ==
        IF st.filterText # ""
        THEN SelectSeq(unfiltered,
               LAMBDA i : MatchesText(st.data[i], toLowerCase(Chars[st.filterText])))
        ELSE unfiltered
  IN  found(UnfilteredRows(st))

\* if(key){ ... rows = rows.slice().sort(...) }
SortedRows(st) ==
  LET sort(searched) ==
        IF st.sort.key # ""
        THEN StableSort(searched,
               [i \in DOMAIN searched, j \in DOMAIN searched |->
                  DirectedCmp(st, st.data[searched[i]], st.data[searched[j]])])
        ELSE searched
  IN  sort(SearchedRows(st))

\* steps of applyFilterSort up to the call of renderRows: the indices of the
\* models handed to renderRows, in order
QueryRows(st) ==
  LET top(sorted) ==
        IF st.topN # "" /\ st.topN # "all"
        THEN Take(StableSort(sorted, ByCost(st, sorted)),
                  ParseDigits(Chars[st.topN]))
        ELSE sorted
  IN  top(SortedRows(st))

\* rank class of the row at position p: its place by ascending cost among
\* the rendered rows, marked for the three cheapest priced rows
RankOf(st, idxs, p) ==
  LET place == SortPosition(idxs, ByCost(st, idxs), p)
  IN  IF st.showRanking /\ ~IsNullish(CostOf(st, st.data[idxs[p]])) /\ place <= 3
      THEN place ELSE 0

\* cost units in a dollar
UnitsPerDollar == 1000000 * FactorDen

\* fmt = v => v==null ? '—' : `$${v.toFixed(v>=10?2:3)}`: the text of a cost
\* cell as dash, or symbol, sign and the digits of toFixed (the value in
\* hundredths or thousandths).  The double decides where it can differ from
\* the real value in effect: at 10, on a value halfway between two texts,
\* and for the sign of a zero sum with negative operands.
fmt(v) ==
  IF IsNullish(v)
  THEN [dash |-> TRUE, symbol |-> "", minus |-> FALSE, decimals |-> 0,
        digits |-> 0]
  ELSE LET abs == IF v.n < 0 THEN 0 - v.n ELSE v.n
           signed == \/ v.of.tokens.in < 0 \/ v.of.tokens.cached < 0
                     \/ v.of.tokens.out < 0 \/ v.of.factor < 0
                     \/ (Truthy(v.of.inPrice) /\ v.of.inPrice.n < 0)
                     \/ (Truthy(v.of.outPrice) /\ v.of.outPrice.n < 0)
           \* the double is -0 or a negative number
           negative(x) == x.neg /\ x.m # <<>>
           \* v.toFixed(d), unit being the cost units of the last digit
           toFixed(d, unit) ==
             [dash |-> FALSE, symbol |-> "$",
              minus |-> IF v.n # 0 THEN v.n < 0
                        ELSE signed /\ negative(Dbl("Double", <<v>>)),
              decimals |-> d,
              digits |-> IF abs % unit = unit \div 2 \/ (v.n = 0 /\ signed)
                         THEN Dbl("DblFixed", <<Dbl("Double", <<v>>), d>>)
                         ELSE (abs + unit \div 2) \div unit]
           text(tenOrMore) ==
             toFixed(IF tenOrMore THEN 2 ELSE 3,
                     UnitsPerDollar \div (IF tenOrMore THEN 100 ELSE 1000))
       IN  text(IF v.n # 10 * UnitsPerDollar
                THEN v.n > 10 * UnitsPerDollar
                ELSE Dbl("DblCmp", <<Dbl("Double", <<v>>),
                                     Dbl("DblOfInt", <<10>>)>>) >= 0)

\* renderRows(rows): the table rows
renderRows(st, idxs) ==
  IF idxs = <<>> THEN <<>>
  ELSE [p \in 1..Len(idxs) |->
          LET r == st.data[idxs[p]]
              cost == CostOf(st, r)
          IN  [ idx |-> idxs[p],
                key |-> ModelKey(r),
                provider |-> r.provider,
                model_name |-> r.model_name,
                context_length |-> r.context_length,
                availability |-> r.availability,
                inputPrice |-> inPriceOf(r, st.useBatch),
                outputPrice |-> outPriceOf(r, st.useBatch),
                cost |-> cost,
                monthly |-> MonthlyOf(st, cost),
                costText |-> fmt(cost),
                monthlyText |-> fmt(MonthlyOf(st, cost)),
                rank |-> RankOf(st, idxs, p) ] ]

\* applyFilterSort(state) raises: the text filter is applied to every model
\* that is not excluded, and raises on the first one it cannot read
applyFilterSortThrows(st) ==
  /\ st.filterText # ""
  /\ \E i \in DOMAIN st.data : KeepUnfiltered(st, i) /\ MatchesTextThrows(st.data[i])

\* applyFilterSort(state): the rows it renders when it does not raise
applyFilterSort(st) == renderRows(st, QueryRows(st))

\* modelByKey.get(key): the last model of state.data with that key
ModelByKey(st, key) ==
  LET hits == {i \in 1..Len(st.data) : ModelKey(st.data[i]) = key}
  IN  IF hits = {} THEN 0 ELSE CHOOSE i \in hits : \A j \in hits : j <= i

\* recalcAllRows(state): the cost, monthly and price cells of every row
recalcAllRows(st, trs) ==
  IF trs = <<>> THEN <<>>
  ELSE [p \in 1..Len(trs) |->
          LET at == ModelByKey(st, trs[p].key)
          IN  IF at = 0 THEN trs[p]
              ELSE LET m == st.data[at]
                       cost == CostOf(st, m)
                   IN  [trs[p] EXCEPT
                          !.cost = cost,
                          !.monthly = MonthlyOf(st, cost),
                          !.costText = fmt(cost),
                          !.monthlyText = fmt(MonthlyOf(st, cost)),
                          !.inputPrice = inPriceOf(m, st.useBatch),
                          !.outputPrice = outPriceOf(m, st.useBatch)] ]

(***************************************************************************)
(* Normalizer harness: one raw record, one call of normalize               *)
(***************************************************************************)

RawRecord(p, id, name, ctx, av, pr) ==
  [provider |-> p, model_id |-> id, model_name |-> name,
   context_length |-> ctx, availability |-> av, pricing |-> pr]

\* the values of an axis: none, or an object whose price_per_million_tokens
\* is null, 0, 3, the text "3" or true
NormAxes ==
  {AxisUndef}
    \cup {AxisObj(p, JUndef) : p \in {JNull, JNum(0), JNum(3), JStr("3"), JBool(TRUE)}}

\* the raw records normalize is called with: every scalar field varied over
\* odd pricings (missing, null, malformed, or with a mode or a currency
\* missing), and one record over the pricing objects with both modes present
\* and every axis varied
NormRecords ==
  LET providers == {JUndef, JStr(""), JStr("Acme"), JStr("AudioCo")}
      modelIds ==
        {JUndef, JNull, JStr(""), JStr("text-embedding-3"),
         JStr("GPT-4o-Audio"), JStr("gpt-4"), JStr("audi-o"), JNum(0),
         JNum(123)}
      modelNames ==
        {JUndef, JStr("Embeddings-Aware-Chat"), JStr("Chat"),
         JStr("GPT-4o-Audio"), JBool(TRUE)}
      contexts == {JUndef, JNum(0), JNum(8192)}
      availabilities == {JUndef, JStr("production")}
      oddPricings ==
        { PricingUndef,
          PricingOf("null", ModeUndef, ModeUndef),
          PricingOf("str", ModeUndef, ModeUndef),
          PricingOf("obj", ModeUndef, ModeUndef),
          PricingOf("obj", ModeOf("str", AxisUndef, AxisUndef), ModeUndef),
          PricingOf("obj", ModeOf("obj", AxisObj(JNum(3), JStr("EUR")),
                                         AxisObj(JNum(0), JUndef)), ModeUndef),
          PricingOf("obj", ModeOf("obj", AxisUndef,
                                         AxisObj(JNum(3), JStr("EUR"))),
                           ModeOf("obj", AxisObj(JNum(3), JUndef), AxisUndef)),
          PricingOf("obj", ModeUndef,
                           ModeOf("obj", AxisObj(JNum(0), JUndef),
                                         AxisObj(JStr("3"), JUndef))) }
      fullPricings ==
        {PricingOf("obj", ModeOf("obj", a, b), ModeOf("obj", c, d)) :
           a \in NormAxes, b \in NormAxes, c \in NormAxes, d \in NormAxes}
  IN  {RawRecord(p, id, name, ctx, av, pr) :
         p \in providers, id \in modelIds, name \in modelNames,
         ctx \in contexts, av \in availabilities, pr \in oddPricings}
        \cup
      {RawRecord(JStr("Acme"), JStr("gpt-4"), JUndef, JUndef, JUndef, pr) :
         pr \in fullPricings}

NormNotCalled == [called |-> FALSE, threw |-> FALSE, model |-> normalize(
  RawRecord(JUndef, JUndef, JUndef, JUndef, JUndef, PricingUndef))]

NormIdle ==
  /\ nrec = RawRecord(JUndef, JUndef, JUndef, JUndef, JUndef, PricingUndef)
  /\ nout = NormNotCalled

\* normalize(nrec): returns a model or raises
NormalizeCall ==
  /\ ~nout.called
  /\ nout' = IF normalizeThrows(nrec)
             THEN [NormNotCalled EXCEPT !.called = TRUE, !.threw = TRUE]
             ELSE [called |-> TRUE, threw |-> FALSE, model |-> normalize(nrec)]
  /\ UNCHANGED <<nrec, cin, cout>>
  /\ UNCHANGED appVars

(***************************************************************************)
(* Calculator harness: one (tokens, model, mode), calcCostWithCached       *)
(* called once per cache-factor argument                                   *)
(***************************************************************************)
CalcPrices == {JNull, JNum(0), JNum(1), JNum(2), JNum(4)}

\* token counts of a call, by field
CalcTokens ==
  [in |-> {0, 1000, 1000000}, cached |-> {0, 1000, 5000},
   out |-> {0, 500, 1000000}]

\* cache-factor arguments: omitted, 0, 1.0
CalcFactors == <<JUndef, JNum(0), JNum(FactorDen)>>

PriceModel(i, o, bi, bo) ==
  [input |-> i, output |-> o, batch_input |-> bi, batch_output |-> bo]

CalcNotCalled ==
  [called |-> FALSE, result |-> JNull, legacy |-> JNull, plain |-> JNull,
   plainLegacy |-> JNull]

CalcIdle ==
  /\ cin = [tokens |-> [in |-> 0, cached |-> 0, out |-> 0],
            m |-> PriceModel(JNull, JNull, JNull, JNull), useBatch |-> FALSE]
  /\ cout = [k \in DOMAIN CalcFactors |-> CalcNotCalled]

\* calcCostWithCached(cin.tokens, cin.m, cin.useBatch, CalcFactors[k]) and
\* calcCost(cin.tokens.in, cin.tokens.out, cin.m, cin.useBatch), of the
\* latest and of the earlier variants
CalcCall(k) ==
  /\ ~cout[k].called
  /\ cout' = [cout EXCEPT ![k] =
                [called |-> TRUE,
                 result |-> calcCostWithCached(cin.tokens, cin.m, cin.useBatch,
                                               CalcFactors[k]),
                 legacy |-> calcCostWithCachedLegacy(cin.tokens, cin.m,
                                                     cin.useBatch,
                                                     CalcFactors[k]),
                 plain |-> calcCost(cin.tokens.in, cin.tokens.out, cin.m,
                                    cin.useBatch),
                 plainLegacy |-> calcCostLegacy(cin.tokens.in, cin.tokens.out,
                                                cin.m, cin.useBatch)]]
  /\ UNCHANGED <<nrec, nout, cin>>
  /\ UNCHANGED appVars

(***************************************************************************)
(* The page: main(), the data load and the UI event handlers               *)
(***************************************************************************)
\* how many of the data files of DATA_FILES, from the first, are modelled
NumSources == 2

Sources == 1..NumSources

StdBatch(i, o, bi, bo) ==
  PricingOf("obj", ModeOf("obj", i, o), ModeOf("obj", bi, bo))

Priced(n) == AxisObj(JNum(n), JStr("USD"))

\* raw records of the data files: a model with standard and batch prices, an
\* embedding model, a record without pricing, an audio model without
\* provider, a second record of gpt-4, a model with a price of 0, a record
\* without provider, one whose provider is the text "Unknown", one whose
\* provider is a number and one whose model_id is a number
RA ==
  [ gpt4 |->
      RawRecord(JStr("Acme"), JStr("gpt-4"), JStr("Chat"), JNum(8192),
                JStr("production"),
                StdBatch(Priced(2), Priced(4), Priced(1), AxisUndef)),
    embed |->
      RawRecord(JStr("Acme"), JStr("text-embedding-3"), JUndef, JUndef, JUndef,
                PricingOf("obj", ModeOf("obj", Priced(1), AxisUndef), ModeUndef)),
    unpriced |->
      RawRecord(JStr("zeta"), JStr("z1"), JUndef, JUndef, JUndef, PricingUndef),
    audio |->
      RawRecord(JUndef, JStr("GPT-4o-Audio"), JUndef, JNum(128), JUndef,
                PricingOf("obj", ModeOf("obj", Priced(4), Priced(4)), ModeUndef)),
    gpt4dup |->
      RawRecord(JStr("Acme"), JStr("gpt-4"), JUndef, JUndef, JUndef,
                PricingOf("obj", ModeOf("obj", Priced(4), Priced(4)), ModeUndef)),
    free |->
      RawRecord(JStr("Beta"), JStr("free"), JUndef, JNum(128), JUndef,
                StdBatch(Priced(0), Priced(1), AxisUndef, Priced(4))),
    anon |->
      RawRecord(JUndef, JStr("z1"), JUndef, JUndef, JUndef, PricingUndef),
    unknown |->
      RawRecord(JStr("Unknown"), JStr("z1"), JUndef, JUndef, JUndef,
                PricingOf("obj", ModeOf("obj", AxisObj(JNum(0), JStr("EUR")),
                                               AxisObj(JNum(1), JStr("EUR"))),
                          ModeUndef)),
    numeric |->
      RawRecord(JNum(5), JStr("gpt-4"), JUndef, JUndef, JUndef,
                PricingOf("obj", ModeOf("obj", Priced(1), Priced(2)), ModeUndef)),
    numericId |->
      RawRecord(JStr("Acme"), JNum(123), JUndef, JUndef, JUndef, PricingUndef) ]

Pending == [status |-> "pending", value |-> <<>>, reason |-> ""]

Fulfilled(v) == [status |-> "fulfilled", value |-> v, reason |-> ""]

Rejected(r) == [status |-> "rejected", value |-> <<>>, reason |-> r]

\* how the fetch of source i may settle, by run of the page: fetchJsonAny
\* resolves with the array of the file or rejects (fetch fails, !res.ok,
\* JSON.parse fails).  "page": every source loads or fails.  "settings": the
\* first data file loads, the second one fails.  "presets": the first one
\* loads, the second one fails, holds the record with the numeric provider
\* or holds the record with the numeric model_id.  "legacy": the first one holds a model with a batch input price
\* only and two records that get the same key, the second one fails.
Outcomes(run, i) ==
  CASE run = "page" ->
         {Rejected(r) : r \in {"network", "http", "json"}}
           \cup {Fulfilled(
                   CASE i = 1 -> <<RA.gpt4, RA.embed, RA.unpriced, RA.gpt4dup>>
                     [] i = 2 -> <<RA.gpt4dup, RA.audio, RA.free, RA.anon,
                                   RA.unknown>>
                     [] OTHER -> <<RA.unpriced>>)}
    [] run = "settings" ->
         IF i = 1
         THEN {Fulfilled(<<RA.gpt4, RA.embed, RA.unpriced, RA.gpt4dup>>)}
         ELSE {Rejected("network")}
    [] run = "presets" ->
         IF i = 1 THEN {Fulfilled(<<RA.gpt4, RA.unknown>>)}
         ELSE {Rejected("network"), Fulfilled(<<RA.numeric>>),
               Fulfilled(<<RA.numericId>>)}
    [] run = "legacy" ->
         IF i = 1 THEN {Fulfilled(<<RA.gpt4, RA.anon, RA.unknown>>)}
         ELSE {Rejected("network")}

\* values typed into a number input: empty, or the text of a number
Empty == JStr("")

\* Number(el.value || 0)
NumberOf(v) == IF Truthy(v) THEN v.n ELSE 0

\* parseURLParams
NoUrl == [in |-> JNull, cached |-> JNull, out |-> JNull, rpd |-> JNull,
          mode |-> FALSE]

\* loadState when nothing is stored
NoStorage ==
  [saved |-> FALSE, globalTokens |-> [in |-> 0, cached |-> 0, out |-> 0],
   rateValue |-> 0, useBatch |-> FALSE]

\* What is entered into the page, by field.  tokens, rate: the values typed
\* into the number inputs; filter: search texts; topN: options of the
\* select; sort: the data-sort keys of the table headers; urls: the URLs the
\* page is opened with, none or a link with `cached=0&rpd=0`; storages: the
\* localStorage contents it is opened with, none or the settings saved by an
\* earlier visit; presets: the presets that are clicked (or chosen with the
\* keys 1 and 4) next to the other settings; settingsFilter, settingsSort:
\* the search texts and header clicks tried next to the settings;
\* customNames: names typed into the prompt of saveCustomPreset, none (or
\* cancel) or a name; errors: messages of uncaught errors of the page.
Entries ==
  [ tokens |-> [inputTokens |-> {Empty, JNum(1000)},
                cachedTokens |-> {JNum(0), JNum(1000)},
                outputTokens |-> {JNum(500)}],
    rate |-> {Empty, JNum(-1), JNum(100)},
    filter |-> {"", "acme", "Acme Chat"},
    topN |-> {"all", "2"},
    sort |-> {"provider", "model_name", "input", "output", "context_length",
              "availability", "cost", "monthly"},
    urls |-> {NoUrl, [NoUrl EXCEPT !.cached = JNum(0), !.rpd = JNum(0)]},
    storages |-> {NoStorage,
                  [saved |-> TRUE,
                   globalTokens |-> [in |-> 1000, cached |-> 1000, out |-> 500],
                   rateValue |-> -1, useBatch |-> TRUE]},
    presets |-> {"chat", "batch"},
    settingsFilter |-> {"", "acme"},
    settingsSort |-> {"cost"},
    customNames |-> {"", "mine"},
    errors |-> {"boom"} ]

\* parseInt(urlValue) || savedValue || fallback
FirstTruthy(urlValue, hasSaved, savedValue, fallback) ==
  IF urlValue.t = "num" /\ urlValue.n # 0 THEN urlValue.n
  ELSE IF hasSaved /\ savedValue # 0 THEN savedValue
  ELSE fallback

\* the state object main builds before the fetch
InitialState(u, sv) ==
  [ data |-> <<>>,
    sort |-> [key |-> "provider", dir |-> "asc"],
    globalTokens |->
      [in |-> FirstTruthy(u.in, sv.saved, sv.globalTokens.in, 1000),
       cached |-> FirstTruthy(u.cached, sv.saved, sv.globalTokens.cached, 0),
       out |-> FirstTruthy(u.out, sv.saved, sv.globalTokens.out, 500)],
    cacheFactor |-> JNum(DefaultCacheFactor),
    rateValue |-> FirstTruthy(u.rpd, sv.saved, sv.rateValue, 100),
    rateType |-> "RPM",
    useBatch |-> (u.mode \/ (sv.saved /\ sv.useBatch)),
    filterText |-> "",
    topN |-> "all",
    showRanking |-> TRUE ]

\* updateURL(state): a parameter is set when its value is truthy
updateURL(st) ==
  LET param(n) == IF n # 0 THEN JNum(n) ELSE JNull
  IN  [in |-> param(st.globalTokens.in),
       cached |-> param(st.globalTokens.cached),
       out |-> param(st.globalTokens.out),
       rpd |-> param(st.rateValue),
       mode |-> st.useBatch]

\* saveState(state)
saveState(st) ==
  [saved |-> TRUE, globalTokens |-> st.globalTokens,
   rateValue |-> st.rateValue, useBatch |-> st.useBatch]

\* arrays.flat(): the fulfilled values in source order
RECURSIVE Merged(_, _)
Merged(results, i) ==
  IF i > Len(results) THEN <<>>
  ELSE (IF results[i].status = "fulfilled" THEN results[i].value ELSE <<>>)
       \o Merged(results, i + 1)

\* the dedupe loop: the records that reach normalize, in order
RECURSIVE Dedupe(_, _)
Dedupe(merged, seen) ==
  IF merged = <<>> THEN <<>>
  ELSE LET rec == Head(merged)
       IN  IF RawKey(rec) \in seen THEN Dedupe(Tail(merged), seen)
           ELSE <<rec>> \o Dedupe(Tail(merged), seen \cup {RawKey(rec)})

\* the promise of source i settles with an outcome
FetchSettleTo(i, outcome) ==
  /\ pc = "fetching"
  /\ fetches[i].status = "pending"
  /\ fetches' = [fetches EXCEPT ![i] = outcome]
  /\ UNCHANGED <<pc, status, state, els, rows, url, storage, customPresets>>
  /\ UNCHANGED harnessVars

\* a batch that counts as settled as soon as one fetch has settled
SomeSettled == \E i \in Sources : fetches[i].status # "pending"

\* Promise.allSettled(...) resolves: every fetch is fulfilled or rejected
AllSettled == \A i \in Sources : fetches[i].status # "pending"

\* the text of #dataStatus: '', `Loaded ${n} models`,
\* `Failed to load data: ${message}` or `Error: ${message}`
StatusText(kind, n, message) == [kind |-> kind, n |-> n, message |-> message]

\* main() after `await Promise.allSettled(...)`
MainBuild ==
  /\ pc = "fetching"
  /\ AllSettled
  /\ LET kept == Dedupe(Merged(fetches, 1), {})
         threw == \E k \in DOMAIN kept : normalizeThrows(kept[k])
         deduped == IF kept = <<>> THEN <<>>
                    ELSE [k \in 1..Len(kept) |-> normalize(kept[k])]
         st == [state EXCEPT !.data = deduped]
     IN  IF threw
         THEN /\ pc' = "failed"
              /\ status' = StatusText("Failed to load data", 0, "TypeError")
              /\ UNCHANGED <<state, els, rows>>
         ELSE /\ pc' = "ready"
              /\ status' = StatusText("Loaded", Len(deduped), "")
              /\ state' = st
              /\ els' = [inputTokens |-> JNum(st.globalTokens.in),
                         cachedTokens |-> JNum(st.globalTokens.cached),
                         outputTokens |-> JNum(st.globalTokens.out),
                         rateValue |-> JNum(st.rateValue),
                         batchChecked |-> st.useBatch]
              /\ rows' = applyFilterSort(st)
  /\ fetches' = [i \in Sources |-> Pending]
  /\ UNCHANGED <<url, storage, customPresets>>
  /\ UNCHANGED harnessVars

\* the listener main installs on window for `error` events, in both
\* variants of the page: an uncaught error is written into #dataStatus
WindowError(message) ==
  /\ status' = StatusText("Error", 0, message)
  /\ UNCHANGED <<pc, fetches, state, els, rows, url, storage, customPresets>>
  /\ UNCHANGED harnessVars

\* what updateGlobalTokens, updateRate and updatePricingType end with
Persist(st) ==
  /\ url' = updateURL(st)
  /\ storage' = saveState(st)

\* a listener ends with applyFilterSort(st): the table is rendered, or the
\* call raises, the table stays and the error event reports the TypeError
Rendered(st) ==
  IF applyFilterSortThrows(st)
  THEN /\ rows' = rows
       /\ status' = StatusText("Error", 0, "TypeError")
  ELSE /\ rows' = applyFilterSort(st)
       /\ status' = status

\* the assignment of updateGlobalTokens, reading the fields e
WithTokensOf(st, e) ==
  [st EXCEPT !.globalTokens =
     [in |-> NumberOf(e.inputTokens),
      cached |-> NumberOf(e.cachedTokens),
      out |-> NumberOf(e.outputTokens)]]

\* input/change on a token field: updateGlobalTokens
TokenInput(el, v) ==
  /\ pc = "ready"
  /\ LET e2 == [els EXCEPT ![el] = v]
         st == WithTokensOf(state, e2)
     IN  /\ els' = e2
         /\ state' = st
         /\ rows' = recalcAllRows(st, rows)
         /\ Persist(st)
  /\ UNCHANGED <<pc, fetches, status, customPresets>>
  /\ UNCHANGED harnessVars

\* input/change on the rate field: updateRate
RateInput(v) ==
  /\ pc = "ready"
  /\ LET st == [state EXCEPT !.rateValue = NumberOf(v)]
     IN  /\ els' = [els EXCEPT !.rateValue = v]
         /\ state' = st
         /\ rows' = recalcAllRows(st, rows)
         /\ Persist(st)
  /\ UNCHANGED <<pc, fetches, status, customPresets>>
  /\ UNCHANGED harnessVars

\* the other pricing radio button is chosen, or key `s` checks it and
\* dispatches `change`: updatePricingType, which stops before updateURL and
\* saveState when applyFilterSort raises
PricingTypeChange(batch) ==
  /\ pc = "ready"
  /\ els.batchChecked # batch
  /\ LET st == [state EXCEPT !.useBatch = batch]
     IN  /\ els' = [els EXCEPT !.batchChecked = batch]
         /\ state' = st
         /\ Rendered(st)
         /\ IF applyFilterSortThrows(st) THEN UNCHANGED <<url, storage>>
            ELSE Persist(st)
  /\ UNCHANGED <<pc, fetches, customPresets>>
  /\ UNCHANGED harnessVars

\* input on #filterInput
FilterInput(text) ==
  /\ pc = "ready"
  /\ LET st == [state EXCEPT !.filterText = text]
     IN  /\ state' = st
         /\ Rendered(st)
  /\ UNCHANGED <<pc, fetches, els, url, storage, customPresets>>
  /\ UNCHANGED harnessVars

\* change on #topNFilter
TopNChange(v) ==
  /\ pc = "ready"
  /\ LET st == [state EXCEPT !.topN = v]
     IN  /\ state' = st
         /\ Rendered(st)
  /\ UNCHANGED <<pc, fetches, els, url, storage, customPresets>>
  /\ UNCHANGED harnessVars

\* a click handler that sorts state.data itself instead of a copy
SortAfterClickInPlace(st, key) ==
  LET s2 == IF st.sort.key = key
            THEN [st EXCEPT !.sort.dir =
                    IF st.sort.dir = "asc" THEN "desc" ELSE "asc"]
            ELSE [st EXCEPT !.sort = [key |-> key, dir |-> "asc"]]
      idxs == SortedRows(s2)
  IN  IF idxs = <<>> THEN s2
      ELSE [s2 EXCEPT !.data = [p \in 1..Len(idxs) |-> st.data[idxs[p]]]]

\* a click handler that never reverses the direction
SortAfterClickAlwaysAsc(st, key) ==
  [st EXCEPT !.sort = [key |-> key, dir |-> "asc"]]

\* the assignments to state.sort when a header with data-sort = key is
\* clicked
SortAfterClick(st, key) ==
  IF st.sort.key = key
  THEN [st EXCEPT !.sort.dir = IF st.sort.dir = "asc" THEN "desc" ELSE "asc"]
  ELSE [st EXCEPT !.sort = [key |-> key, dir |-> "asc"]]

\* click on a table header: the handler setupSort installs
SortClick(key) ==
  /\ pc = "ready"
  /\ IF key = ""
     THEN UNCHANGED <<state, rows, status>>
     ELSE LET st == SortAfterClick(state, key)
          IN  /\ state' = st
              /\ Rendered(st)
  /\ UNCHANGED <<pc, fetches, els, url, storage, customPresets>>
  /\ UNCHANGED harnessVars

\* the input elements before main fills them in
NoEls ==
  [inputTokens |-> Empty, cachedTokens |-> Empty, outputTokens |-> Empty,
   rateValue |-> Empty, batchChecked |-> FALSE]

\* PRESETS, in the units of the fields (tokens, requests per day)
PRESETS ==
  [chat |-> [in |-> 1000, cached |-> 0, out |-> 500, rpd |-> 1000,
             batch |-> FALSE],
   context |-> [in |-> 100000, cached |-> 0, out |-> 2000, rpd |-> 100,
                batch |-> FALSE],
   agent |-> [in |-> 10000, cached |-> 5000, out |-> 3000, rpd |-> 500,
              batch |-> FALSE],
   batch |-> [in |-> 50000, cached |-> 0, out |-> 5000, rpd |-> 10000,
              batch |-> TRUE]]

\* the names of the preset buttons and of the keys 1-5
PresetKeys == <<"chat", "context", "agent", "batch", "custom1">>

\* getCustomPresets() when nothing is stored
NoCustomPresets == [custom1 |-> JNull]

\* click on #save-preset-btn: saveCustomPreset stores the current settings
\* as the preset custom1, unless no name is given
SaveCustomPreset(name) ==
  /\ pc = "ready"
  /\ customPresets' =
       IF name = "" THEN customPresets
       ELSE [customPresets EXCEPT !.custom1 =
               [name |-> name,
                in |-> state.globalTokens.in,
                cached |-> state.globalTokens.cached,
                out |-> state.globalTokens.out,
                rpd |-> state.rateValue,
                batch |-> state.useBatch]]
  /\ UNCHANGED <<pc, fetches, status, state, els, rows, url, storage>>
  /\ UNCHANGED harnessVars

\* loadPreset(presetName): PRESETS[presetName], else the custom preset of
\* that name, else none (JNull)
PresetNamed(name) ==
  IF name \in DOMAIN PRESETS THEN PRESETS[name]
  ELSE IF name \in DOMAIN customPresets THEN customPresets[name]
  ELSE JNull

\* the assignment of updatePricingType, reading the radio button of e
WithPricingTypeOf(st, e) == [st EXCEPT !.useBatch = e.batchChecked]

\* click on a preset button or key 1-5: loadPreset, applyPreset.  The
\* fields are filled in, then an input event on #inputTokens runs
\* updateGlobalTokens and a change event on each radio button runs
\* updatePricingType; when that raises, the event is over and applyPreset
\* goes on.
PresetClick(name) ==
  /\ pc = "ready"
  /\ LET preset == PresetNamed(name)
         e2 == [els EXCEPT !.inputTokens = JNum(preset.in),
                           !.cachedTokens = JNum(preset.cached),
                           !.outputTokens = JNum(preset.out),
                           !.rateValue = JNum(preset.rpd),
                           !.batchChecked = preset.batch]
         st1 == WithTokensOf(state, e2)
         st2 == WithPricingTypeOf(st1, e2)
     IN  IF preset = JNull
         THEN UNCHANGED <<els, state, rows, status, url, storage>>
         ELSE /\ els' = e2
              /\ state' = st2
              /\ IF applyFilterSortThrows(st2)
                 THEN /\ rows' = recalcAllRows(st1, rows)
                      /\ status' = StatusText("Error", 0, "TypeError")
                      /\ Persist(st1)
                 ELSE /\ rows' = applyFilterSort(st2)
                      /\ status' = status
                      /\ Persist(st2)
  /\ UNCHANGED <<pc, fetches, customPresets>>
  /\ UNCHANGED harnessVars

\* key `r`: the four fields are reset, then an input event on #inputTokens
\* runs updateGlobalTokens
ResetKey ==
  /\ pc = "ready"
  /\ LET e2 == [els EXCEPT !.inputTokens = JNum(1000),
                           !.cachedTokens = JNum(0),
                           !.outputTokens = JNum(500),
                           !.rateValue = JNum(100)]
         st == WithTokensOf(state, e2)
     IN  /\ els' = e2
         /\ state' = st
         /\ rows' = recalcAllRows(st, rows)
         /\ Persist(st)
  /\ UNCHANGED <<pc, fetches, status, customPresets>>
  /\ UNCHANGED harnessVars

\* the page is loaded again, at any time: main runs with the URL and the
\* localStorage that the previous run left
Reload ==
  /\ pc' = "fetching"
  /\ fetches' = [i \in Sources |-> Pending]
  /\ status' = StatusText("", 0, "")
  /\ state' = InitialState(url, storage)
  /\ els' = NoEls
  /\ rows' = <<>>
  /\ UNCHANGED <<url, storage, customPresets>>
  /\ UNCHANGED harnessVars

(***************************************************************************)
(* The earlier variant of the page (part_000): a search field, a token     *)
(* triple per table row with a Standard and a Batch cost cell, and the     *)
(* cache-factor field.  Its state object is [data, query, sort, inputs,    *)
(* cacheFactor], state.inputs being the set of its entries [key, tokens];  *)
(* its fields are els = [search, cacheFactor]; a table row holds its key,  *)
(* the model it was rendered from (idx), the three token fields and the    *)
(* two cost cells.                                                         *)
(***************************************************************************)
\* normalize of the earlier variant: no is_filtered, nothing that raises
normalizeLegacy(rec) ==
  LET std == PricingMode(rec, "standard")
      batch == PricingMode(rec, "batch")
  IN  [ provider |-> JOr(rec.provider, JStr("Unknown")),
        model_id |-> JOr(rec.model_id, JStr("")),
        model_name |-> JOr(rec.model_name, JOr(rec.model_id, JStr("Unknown"))),
        context_length |-> JOr(rec.context_length, JNull),
        availability |-> JOr(rec.availability, JStr("unknown")),
        input |-> val(AxisProp(std, "input")),
        output |-> val(AxisProp(std, "output")),
        batch_input |-> val(AxisProp(batch, "input")),
        batch_output |-> val(AxisProp(batch, "output")),
        currency |-> JOr(AxisCurrency(AxisProp(std, "input")),
                         JOr(AxisCurrency(AxisProp(std, "output")), JStr("USD"))) ]

\* the state object main builds before the fetch
LegacyInitialState ==
  [ data |-> <<>>,
    query |-> "",
    sort |-> [key |-> "provider", dir |-> "asc"],
    inputs |-> {},
    cacheFactor |-> JNum(DefaultCacheFactor) ]

\* #search and #cacheFactor before anything is typed
LegacyNoEls == [search |-> "", cacheFactor |-> Empty]

RECURSIVE trim(_)
\* String.prototype.trim, for blanks
trim(s) ==
  IF s # <<>> /\ Head(s) = " " THEN trim(Tail(s))
  ELSE IF s # <<>> /\ s[Len(s)] = " " THEN trim(SubSeq(s, 1, Len(s) - 1))
  ELSE s

\* applyFilterSort of the earlier variant up to renderRows: the indices in
\* state.data of the rows, filtered by the query on
\* `${r.provider} ${r.model_name} ${r.model_id}` and sorted by a[key]
LegacyQueryRows(st) ==
  LET q == trim(toLowerCase(Chars[st.query]))
      text(r) == toLowerCase(ToStr(r.provider) \o <<" ">> \o ToStr(r.model_name)
                             \o <<" ">> \o ToStr(r.model_id))
      all == [i \in 1..Len(st.data) |-> i]
      found == IF q # <<>>
               THEN SelectSeq(all, LAMBDA i : includes(text(st.data[i]), q))
               ELSE all
      sign(i, j) == PlainCompare(st.data[found[i]][st.sort.key],
                                 st.data[found[j]][st.sort.key])
  IN  IF st.sort.key # ""
      THEN StableSort(found,
             [i \in DOMAIN found, j \in DOMAIN found |->
                IF st.sort.dir = "asc" THEN sign(i, j) ELSE 0 - sign(i, j)])
      ELSE found

\* window.__state.inputs[key] || { in: 0, cached: 0, out: 0 }
InputsOf(inputs, key) ==
  IF \E e \in inputs : e.key = key
  THEN (CHOOSE e \in inputs : e.key = key).tokens
  ELSE [in |-> 0, cached |-> 0, out |-> 0]

\* state.inputs[key] = tokens
WithInput(inputs, key, tokens) ==
  {e \in inputs : e.key # key} \cup {[key |-> key, tokens |-> tokens]}

\* the tokens read from the three fields of a row: Number(el.value || 0)
RowTokens(tr) ==
  [in |-> NumberOf(tr.tokIn), cached |-> NumberOf(tr.tokCached),
   out |-> NumberOf(tr.tokOut)]

\* the cost cells of a row, computed for the model at index at of
\* state.data from the tokens of its fields
WithCostCells(st, tr, at) ==
  IF at = 0 THEN tr
  ELSE [tr EXCEPT
          !.stdCost = fmt(calcCostWithCachedLegacy(RowTokens(tr), st.data[at],
                                                   FALSE, st.cacheFactor)),
          !.batchCost = fmt(calcCostWithCachedLegacy(RowTokens(tr), st.data[at],
                                                     TRUE, st.cacheFactor))]

\* data.find(x => key of x === key): the first model with that key
FirstByKey(st, key) ==
  LET hits == {i \in 1..Len(st.data) : ModelKey(st.data[i]) = key}
  IN  IF hits = {} THEN 0 ELSE CHOOSE i \in hits : \A j \in hits : i <= j

\* renderRows(rows) with the wireRowInputs it ends with: the token fields
\* show state.inputs[key], the cost cells get their initial values for
\* modelByKey.get(key)
renderRowsLegacy(st, idxs) ==
  IF idxs = <<>> THEN <<>>
  ELSE [p \in 1..Len(idxs) |->
          LET key == ModelKey(st.data[idxs[p]])
              tokens == InputsOf(st.inputs, key)
          IN  WithCostCells(st,
                [idx |-> idxs[p], key |-> key,
                 tokIn |-> JNum(tokens.in), tokCached |-> JNum(tokens.cached),
                 tokOut |-> JNum(tokens.out),
                 stdCost |-> fmt(JNull), batchCost |-> fmt(JNull)],
                ModelByKey(st, key))] \o <<>>

\* state.inputs once wireRowInputs has run updateRow on every row
WiredInputs(st, trs) ==
  st.inputs \cup {[key |-> trs[p].key, tokens |-> RowTokens(trs[p])] :
                    p \in DOMAIN trs}

\* recalcAllRows(state) of the earlier variant
recalcAllRowsLegacy(st, trs) ==
  IF trs = <<>> THEN <<>>
  ELSE [p \in 1..Len(trs) |->
          WithCostCells(st, trs[p], ModelByKey(st, trs[p].key))] \o <<>>

\* a listener ends with applyFilterSort(st)
LegacyRendered(st) ==
  LET trs == renderRowsLegacy(st, LegacyQueryRows(st))
  IN  /\ rows' = trs
      /\ state' = [st EXCEPT !.inputs = WiredInputs(st, trs)]

\* main() of the earlier variant after `await Promise.allSettled(...)`
LegacyMainBuild ==
  /\ pc = "fetching"
  /\ AllSettled
  /\ LET kept == Dedupe(Merged(fetches, 1), {})
         deduped == IF kept = <<>> THEN <<>>
                    ELSE [k \in 1..Len(kept) |-> normalizeLegacy(kept[k])]
     IN  /\ status' = StatusText("Loaded", Len(deduped), "")
         /\ LegacyRendered([state EXCEPT !.data = deduped])
  /\ pc' = "ready"
  /\ fetches' = [i \in Sources |-> Pending]
  /\ UNCHANGED <<els, url, storage, customPresets>>
  /\ UNCHANGED harnessVars

\* input on #search
SearchInput(text) ==
  /\ pc = "ready"
  /\ els' = [els EXCEPT !.search = text]
  /\ LegacyRendered([state EXCEPT !.query = text])
  /\ UNCHANGED <<pc, fetches, status, url, storage, customPresets>>
  /\ UNCHANGED harnessVars

\* click on #reset
SearchReset ==
  /\ pc = "ready"
  /\ els' = [els EXCEPT !.search = ""]
  /\ LegacyRendered([state EXCEPT !.query = ""])
  /\ UNCHANGED <<pc, fetches, status, url, storage, customPresets>>
  /\ UNCHANGED harnessVars

\* click on a table header: the handler setupSort installs
LegacySortClick(key) ==
  /\ pc = "ready"
  /\ IF key = ""
     THEN UNCHANGED <<state, rows>>
     ELSE LegacyRendered(SortAfterClick(state, key))
  /\ UNCHANGED <<pc, fetches, status, els, url, storage, customPresets>>
  /\ UNCHANGED harnessVars

\* a value is typed into a token field of the row at p: the listener of the
\* field runs updateRow for modelByKey.get(key), then the delegated listener
\* of the table body computes the cells again for the first model with the
\* key; both store the tokens in state.inputs
RowTokenInput(p, field, v) ==
  /\ pc = "ready"
  /\ p \in DOMAIN rows
  /\ LET tr == [rows[p] EXCEPT ![field] = v]
     IN  /\ rows' = [rows EXCEPT ![p] = WithCostCells(state, tr,
                                                       FirstByKey(state, tr.key))]
         /\ state' = [state EXCEPT
                        !.inputs = WithInput(@, tr.key, RowTokens(tr))]
  /\ UNCHANGED <<pc, fetches, status, els, url, storage, customPresets>>
  /\ UNCHANGED harnessVars

\* a factor that is used as typed
UnclampedFactor(v) == IF v.t = "num" THEN v ELSE JNum(DefaultCacheFactor)

\* isFinite(v) ? Math.max(0, Math.min(1, v)) : 0.5 with v = Number(text);
\* Number('') is 0
ClampedFactor(v) ==
  IF v.t = "num"
  THEN JNum(IF v.n < 0 THEN 0 ELSE IF v.n > FactorDen THEN FactorDen ELSE v.n)
  ELSE IF v = Empty THEN JNum(0)
  ELSE JNum(DefaultCacheFactor)

\* String(f.toFixed(2)) of a factor f: the text of its hundredths
FactorText(f) == [decimals |-> 2, digits |-> (f.n * 100) \div FactorDen]

\* input on #cacheFactor
CacheFactorInput(v) ==
  /\ pc = "ready"
  /\ LET st == [state EXCEPT !.cacheFactor = ClampedFactor(v)]
     IN  /\ state' = st
         /\ els' = [els EXCEPT !.cacheFactor = FactorText(st.cacheFactor)]
         /\ rows' = recalcAllRowsLegacy(st, rows)
  /\ UNCHANGED <<pc, fetches, status, url, storage, customPresets>>
  /\ UNCHANGED harnessVars

\* the page of the earlier variant is loaded again
LegacyReload ==
  /\ pc' = "fetching"
  /\ fetches' = [i \in Sources |-> Pending]
  /\ status' = StatusText("", 0, "")
  /\ state' = LegacyInitialState
  /\ els' = LegacyNoEls
  /\ rows' = <<>>
  /\ UNCHANGED <<url, storage, customPresets>>
  /\ UNCHANGED harnessVars

\* What is entered into the page of the earlier variant.  query: search
\* texts; sort: header clicks; rowTokens: the token fields of a row and the
\* values typed into them; cacheFactor: texts typed into the cache-factor
\* field (numbers in units of 1/FactorDen), not a number, nothing, -1 and 2.
LegacyEntries ==
  [ query |-> {"", "acme "},
    sort |-> {"input"},
    rowTokens |-> [tokCached |-> {Empty, JNum(1000)}, tokOut |-> {JNum(500)}],
    cacheFactor |-> {JStr("abc"), Empty, JNum(0 - FactorDen),
                     JNum(2 * FactorDen)} ]

AppIdle ==
  /\ pc = "failed"
  /\ fetches = [i \in Sources |-> Pending]
  /\ status = StatusText("", 0, "")
  /\ state = InitialState(NoUrl, NoStorage)
  /\ els = NoEls
  /\ rows = <<>>
  /\ url = NoUrl
  /\ storage = NoStorage
  /\ customPresets = NoCustomPresets

(***************************************************************************)
(* Specifications                                                          *)
(***************************************************************************)
\* the page once main has built its state object and issued the fetches
Init ==
  /\ pc = "fetching"
  /\ fetches = [i \in Sources |-> Pending]
  /\ status = StatusText("", 0, "")
  /\ url = NoUrl
  /\ storage = NoStorage
  /\ customPresets = NoCustomPresets
  /\ state = InitialState(url, storage)
  /\ els = NoEls
  /\ rows = <<>>
  /\ NormIdle
  /\ CalcIdle

Next ==
  \/ \E i \in Sources : \E outcome \in Outcomes("page", i) :
       FetchSettleTo(i, outcome)
  \/ MainBuild
  \/ \E el \in DOMAIN Entries.tokens : \E v \in Entries.tokens[el] :
       TokenInput(el, v)
  \/ \E v \in Entries.rate : RateInput(v)
  \/ \E b \in BOOLEAN : PricingTypeChange(b)
  \/ \E text \in Entries.filter : FilterInput(text)
  \/ \E v \in Entries.topN : TopNChange(v)
  \/ \E key \in Entries.sort \cup {""} : SortClick(key)

Spec == Init /\ [][Next]_vars

\* the page opened with a URL and a localStorage, on one catalog, with the
\* handlers of the settings
InitSettings ==
  /\ pc = "fetching"
  /\ fetches = [i \in Sources |-> Pending]
  /\ status = StatusText("", 0, "")
  /\ url \in Entries.urls
  /\ storage \in Entries.storages
  /\ customPresets = NoCustomPresets
  /\ state = InitialState(url, storage)
  /\ els = NoEls
  /\ rows = <<>>
  /\ NormIdle
  /\ CalcIdle

NextSettings ==
  \/ \E i \in Sources : \E outcome \in Outcomes("settings", i) :
       FetchSettleTo(i, outcome)
  \/ MainBuild
  \/ \E el \in DOMAIN Entries.tokens : \E v \in Entries.tokens[el] :
       TokenInput(el, v)
  \/ \E v \in Entries.rate : RateInput(v)
  \/ \E b \in BOOLEAN : PricingTypeChange(b)
  \/ \E name \in Entries.presets : PresetClick(name)
  \/ ResetKey
  \/ \E text \in Entries.settingsFilter : FilterInput(text)
  \/ \E v \in Entries.topN : TopNChange(v)
  \/ \E key \in Entries.settingsSort : SortClick(key)
  \/ Reload

SpecSettings == InitSettings /\ [][NextSettings]_vars

\* the page with the presets (the built-in ones, and the custom one that
\* is saved and loaded) and with the errors of the page: a catalog may hold
\* a provider that the text filter cannot read, or a model_id that normalize
\* cannot read
InitPresets ==
  /\ pc = "fetching"
  /\ fetches = [i \in Sources |-> Pending]
  /\ status = StatusText("", 0, "")
  /\ url = NoUrl
  /\ storage = NoStorage
  /\ customPresets = NoCustomPresets
  /\ state = InitialState(url, storage)
  /\ els = NoEls
  /\ rows = <<>>
  /\ NormIdle
  /\ CalcIdle

NextPresets ==
  \/ \E i \in Sources : \E outcome \in Outcomes("presets", i) :
       FetchSettleTo(i, outcome)
  \/ MainBuild
  \/ TokenInput("outputTokens", JNum(3000))
  \/ \E b \in BOOLEAN : PricingTypeChange(b)
  \/ \E text \in Entries.settingsFilter : FilterInput(text)
  \/ \E message \in Entries.errors : WindowError(message)
  \/ \E name \in Entries.customNames : SaveCustomPreset(name)
  \/ \E k \in DOMAIN PresetKeys : PresetClick(PresetKeys[k])
  \/ ResetKey
  \/ Reload

SpecPresets == InitPresets /\ [][NextPresets]_vars

\* the earlier variant of the page
InitLegacy ==
  /\ pc = "fetching"
  /\ fetches = [i \in Sources |-> Pending]
  /\ status = StatusText("", 0, "")
  /\ url = NoUrl
  /\ storage = NoStorage
  /\ customPresets = NoCustomPresets
  /\ state = LegacyInitialState
  /\ els = LegacyNoEls
  /\ rows = <<>>
  /\ NormIdle
  /\ CalcIdle

NextLegacy ==
  \/ \E i \in Sources : \E outcome \in Outcomes("legacy", i) :
       FetchSettleTo(i, outcome)
  \/ LegacyMainBuild
  \/ \E text \in LegacyEntries.query : SearchInput(text)
  \/ SearchReset
  \/ \E key \in LegacyEntries.sort : LegacySortClick(key)
  \/ \E p \in 1..3 : \E field \in DOMAIN LegacyEntries.rowTokens :
       \E v \in LegacyEntries.rowTokens[field] : RowTokenInput(p, field, v)
  \/ \E v \in LegacyEntries.cacheFactor : CacheFactorInput(v)
  \/ \E message \in Entries.errors : WindowError(message)
  \/ LegacyReload

SpecLegacy == InitLegacy /\ [][NextLegacy]_vars

InitNorm ==
  /\ nrec \in NormRecords
  /\ nout = NormNotCalled
  /\ CalcIdle
  /\ AppIdle

NextNorm == NormalizeCall

SpecNorm == InitNorm /\ [][NextNorm]_vars

InitCalc ==
  /\ NormIdle
  /\ AppIdle
  /\ cin \in [tokens : [in : CalcTokens.in, cached : CalcTokens.cached,
                        out : CalcTokens.out],
              m : {PriceModel(i, o, bi, bo) : i \in CalcPrices, o \in CalcPrices,
                                             bi \in CalcPrices, bo \in CalcPrices},
              useBatch : BOOLEAN]
  /\ cout = [k \in DOMAIN CalcFactors |-> CalcNotCalled]

NextCalc == \E k \in DOMAIN CalcFactors : CalcCall(k)

SpecCalc == InitCalc /\ [][NextCalc]_vars

(***************************************************************************)
(* Claims about the cost calculator (SpecCalc)                             *)
(***************************************************************************)
\* The price a claim expects on an axis: under Batch the batch price when it
\* is a number, else the standard price; under Standard the standard price.
ExpectedPrice(std, batch, useBatch) ==
  IF useBatch /\ batch.t = "num" THEN batch ELSE std

\* v is the number whose real value is n cost units
CostIs(v, n) == v.t = "num" /\ v.n = n

ExpectedIn == ExpectedPrice(cin.m.input, cin.m.batch_input, cin.useBatch)

ExpectedOut == ExpectedPrice(cin.m.output, cin.m.batch_output, cin.useBatch)

\* the factor each harness call passes, omitted meaning 0.5
ExpectedFactor(k) ==
  IF CalcFactors[k].t = "num" THEN CalcFactors[k].n ELSE DefaultCacheFactor

\* tokens/1e6 * price, 0 for a price that is not known
ExpectedTerm(n, price, factor) ==
  IF price.t = "num" THEN n * price.n * factor ELSE 0

ExpectedCost(pin, pout, k) ==
  ExpectedTerm(cin.tokens.in, pin, FactorDen)
  + ExpectedTerm(cin.tokens.cached, pin, ExpectedFactor(k))
  + ExpectedTerm(cin.tokens.out, pout, FactorDen)

\* C1: calcCostWithCached returns null if and only if both mode-resolved
\* prices are null; a free (0) price on one axis with null on the other
\* yields a number.
Thm_C1 ==
  \A k \in DOMAIN CalcFactors :
    cout[k].called =>
      /\ cout[k].result.t \in {"null", "num"}
      /\ (cout[k].result.t = "null") <=> (ExpectedIn.t = "null" /\ ExpectedOut.t = "null")

Wit_C1 ==
  \E k \in DOMAIN CalcFactors :
    /\ cout[k].called
    /\ ExpectedIn = JNum(0)
    /\ ExpectedOut = JNull
    /\ cin.tokens.in > 0
    /\ CostIs(cout[k].result, 0)

\* C2: under Batch mode each axis uses the batch price if non-null, else the
\* standard price of the same axis, so with standard input 1 and batch input
\* null the input component is that of Standard mode.
Thm_C2 ==
  \A k \in DOMAIN CalcFactors :
    (cout[k].called /\ cin.useBatch) =>
      LET pin == IF cin.m.batch_input.t = "num" THEN cin.m.batch_input
                 ELSE cin.m.input
          pout == IF cin.m.batch_output.t = "num" THEN cin.m.batch_output
                  ELSE cin.m.output
      IN  IF pin.t = "null" /\ pout.t = "null" THEN cout[k].result = JNull
          ELSE CostIs(cout[k].result, ExpectedCost(pin, pout, k))

Wit_C2 ==
  \E k \in DOMAIN CalcFactors :
    /\ cout[k].called
    /\ cin.useBatch
    /\ cin.m.input = JNum(1)
    /\ cin.m.batch_input = JNull
    /\ cin.m.output = JNull
    /\ cin.m.batch_output = JNull
    /\ cin.tokens.in = 1000
    /\ cin.tokens.cached = 0
    /\ CostIs(cout[k].result, 1000 * FactorDen)

\* C3: a non-null cost is (in/1e6)*inPrice + (cached/1e6)*inPrice*factor
\* + (out/1e6)*outPrice, a term with a null price contributing 0; prices 2
\* and 4 with one million input and output tokens cost 6 in Standard mode.
\* The real value of the result is that sum, and its operands are the
\* tokens, the expected prices and the factor, so the number the code holds
\* is the sum as the expression computes it.
Thm_C3 ==
  \A k \in DOMAIN CalcFactors :
    (cout[k].called /\ cout[k].result.t # "null") =>
      /\ CostIs(cout[k].result, ExpectedCost(ExpectedIn, ExpectedOut, k))
      /\ cout[k].result.of
           = [tokens |-> cin.tokens, inPrice |-> ExpectedIn,
              outPrice |-> ExpectedOut, factor |-> ExpectedFactor(k),
              times |-> JNull]

Wit_C3 ==
  \E k \in DOMAIN CalcFactors :
    /\ cout[k].called
    /\ ~cin.useBatch
    /\ cin.m.input = JNum(2)
    /\ cin.m.output = JNum(4)
    /\ cin.tokens = [in |-> 1000000, cached |-> 0, out |-> 1000000]
    /\ CostIs(cout[k].result, 6 * 1000000 * FactorDen)
    /\ Dbl("DblCmp", <<Dbl("Double", <<cout[k].result>>),
                        Dbl("DblOfInt", <<6>>)>>) = 0

\* x - y of two doubles
DblMinus(x, y) == Dbl("DblPlus", <<x, [y EXCEPT !.neg = ~@]>>)

\* C4: with a non-null input price, cost(f = 1) - cost(f = 0) is
\* (cached/1e6)*inPrice; an explicit factor 0 is used as 0, not as 0.5.
\* The costs and their difference are those of the code's numbers.
Cex_C4 ==
  (cout[2].called /\ cout[3].called /\ ExpectedIn.t = "num") =>
    /\ Dbl("DblCmp",
           <<DblMinus(Dbl("Double", <<cout[3].result>>),
                      Dbl("Double", <<cout[2].result>>)),
             Dbl("DblTimesInt", <<Dbl("DblPerMillion", <<cin.tokens.cached>>),
                                  ExpectedIn.n>>)>>) = 0
    /\ cout[2].result.n
         = ExpectedTerm(cin.tokens.in, ExpectedIn, FactorDen)
           + ExpectedTerm(cin.tokens.out, ExpectedOut, FactorDen)

(***************************************************************************)
(* Claims about normalize (SpecNorm)                                       *)
(***************************************************************************)
\* what the raw record holds at pricing.<mode>.<axis>.price_per_million_tokens
RawPrice(mode, axis) ==
  IF /\ nrec.pricing.t = "obj"
     /\ nrec.pricing[mode].t = "obj"
     /\ nrec.pricing[mode][axis].t = "obj"
  THEN nrec.pricing[mode][axis].price_per_million_tokens
  ELSE JUndef

ExpectedNormPrice(mode, axis) ==
  IF RawPrice(mode, axis).t = "num" THEN JNum(RawPrice(mode, axis).n) ELSE JNull

\* C7: normalize maps an absent or non-numeric price field to null, never to
\* 0, and keeps a numeric price, 0 included; without `pricing` all four
\* prices are null.
Thm_C7 ==
  (nout.called /\ ~nout.threw) =>
    /\ nout.model.input = ExpectedNormPrice("standard", "input")
    /\ nout.model.output = ExpectedNormPrice("standard", "output")
    /\ nout.model.batch_input = ExpectedNormPrice("batch", "input")
    /\ nout.model.batch_output = ExpectedNormPrice("batch", "output")

Wit_C7 ==
  /\ nout.called
  /\ ~nout.threw
  /\ RawPrice("standard", "input") = JNum(0)
  /\ RawPrice("standard", "output") = JStr("3")
  /\ RawPrice("batch", "input") = JBool(TRUE)
  /\ RawPrice("batch", "output") = JUndef
  /\ nout.model.input = JNum(0)
  /\ nout.model.output = JNull
  /\ nout.model.batch_input = JNull
  /\ nout.model.batch_output = JNull

\* C8: normalize never fails: for every raw record, also one whose model_id
\* or model_name is no string, it raises nothing and returns a model with
\* the defaults ("Unknown", "", model_id then "Unknown", "unknown", "USD",
\* null) in place of absent fields.
Cex_C8 ==
  nout.called =>
    /\ ~nout.threw
    /\ (nrec.provider.t = "undef" => nout.model.provider = JStr("Unknown"))
    /\ (nrec.model_id.t = "undef" => nout.model.model_id = JStr(""))
    /\ ((nrec.model_name.t = "undef" /\ nrec.model_id.t = "str"
         /\ nrec.model_id.s # "")
        => nout.model.model_name = nrec.model_id)
    /\ ((nrec.model_name.t = "undef" /\ nrec.model_id.t = "undef")
        => nout.model.model_name = JStr("Unknown"))
    /\ (nrec.availability.t = "undef"
        => nout.model.availability = JStr("unknown"))
    /\ (nrec.pricing.t = "undef" => nout.model.currency = JStr("USD"))
    /\ (nrec.context_length.t = "undef" => nout.model.context_length = JNull)

\* does the lowercased string hold "audio" or "embedding" somewhere
HasToken(v) ==
  /\ v.t = "str"
  /\ \E i \in 1..Len(Chars[v.s]) : \E j \in i..Len(Chars[v.s]) :
       SubSeq(toLowerCase(Chars[v.s]), i, j) \in {S_audio, S_embedding}

\* C9: is_filtered is true if and only if model_id or model_name, compared
\* case-insensitively, contains "audio" or "embedding"; provider and the
\* other fields have no influence.
Thm_C9 ==
  (nout.called /\ ~nout.threw) =>
    (nout.model.is_filtered
       <=> (HasToken(nout.model.model_id) \/ HasToken(nout.model.model_name)))

Wit_C9 ==
  /\ nout.called
  /\ ~nout.threw
  /\ nrec.model_name = JStr("Embeddings-Aware-Chat")
  /\ nrec.model_id = JStr("gpt-4")
  /\ nrec.provider = JStr("Acme")
  /\ nout.model.is_filtered

(***************************************************************************)
(* Claims about the page (Spec)                                            *)
(***************************************************************************)
\* requests in a 30-day month for a rate and its period unit, as stated
ClaimedMonthlyRequests(rate, period) ==
  IF rate <= 0 THEN 0
  ELSE IF period = "RPD" THEN rate * 30
  ELSE rate * 60 * 24 * 30

\* C5: the monthly cost of a row is its per-request cost times the requests
\* of a 30-day month derived from the rate and its period unit: rate*30 for
\* a per-day rate, rate*60*24*30 for a per-minute rate.  (Stated as a
\* quotient so that the products stay in range.)
Cex_C5 ==
  pc = "ready" =>
    \A p \in DOMAIN rows :
      (rows[p].cost.t = "num" /\ rows[p].cost.n > 0) =>
        /\ rows[p].monthly.t = "num"
        /\ rows[p].monthly.n \div rows[p].cost.n
             = ClaimedMonthlyRequests(state.rateValue, state.rateType)

\* C6: the monthly cost of a row is null exactly when its per-request cost
\* is null; with a numeric per-request cost and a rate that is zero,
\* negative or missing (an empty rate field), the monthly cost is 0.
Thm_C6 ==
  \A p \in DOMAIN rows :
    /\ IsNullish(rows[p].monthly) <=> IsNullish(rows[p].cost)
    /\ (/\ rows[p].cost.t = "num"
        /\ (state.rateValue <= 0 \/ els.rateValue = Empty))
         => CostIs(rows[p].monthly, 0)

Wit_C6 ==
  /\ pc = "ready"
  /\ els.rateValue = JNum(-1)
  /\ state.rateValue < 0
  /\ \E p \in DOMAIN rows :
       /\ rows[p].cost.t = "num"
       /\ rows[p].cost.n > 0
       /\ CostIs(rows[p].monthly, 0)
  /\ \E p \in DOMAIN rows :
       /\ rows[p].cost = JNull
       /\ rows[p].monthly = JNull

\* C10: in every reachable state of the page, whatever the search text,
\* sort, pricing mode, tokens, rate and top-N setting, no rendered row shows
\* a model whose is_filtered is true.
Thm_C10 ==
  \A p \in DOMAIN rows : ~state.data[rows[p].idx].is_filtered

Wit_C10 ==
  /\ pc = "ready"
  /\ state.filterText = "acme"
  /\ state.topN = "2"
  /\ state.useBatch
  /\ rows # <<>>
  /\ \E i \in DOMAIN state.data :
       /\ state.data[i].is_filtered
       /\ MatchesText(state.data[i], toLowerCase(Chars[state.filterText]))

(***************************************************************************)
(* Claims about the load (Spec; C13 on SpecPresets)                         *)
(***************************************************************************)
\* C11: in every catalog built by a load the identity key
\* `${provider}::${model_id || model_name}` of the normalized fields is
\* unique, also when raw records lack a provider or both names.
Cex_C11 ==
  pc = "ready" =>
    \A i, j \in DOMAIN state.data :
      i # j => ModelKey(state.data[i]) # ModelKey(state.data[j])

\* the step of main that builds the catalog from the settled fetches
LoadStep == pc = "fetching" /\ pc' = "ready"

\* the positions of a sequence of raw records that hold the first record
\* of their dedupe key
FirstSeen(merged) ==
  {k \in DOMAIN merged :
     \A j \in 1..(k - 1) : RawKey(merged[j]) # RawKey(merged[k])}

\* the p-th smallest element of a set of positions
NthOf(K, p) == CHOOSE k \in K : Cardinality({j \in K : j <= k}) = p

\* the positions of a sequence of raw records that hold the first record
\* of their identity key, the key of the normalized fields
FirstOfIdentity(merged) ==
  {k \in DOMAIN merged :
     \A j \in 1..(k - 1) :
       ModelKey(normalize(merged[j])) # ModelKey(normalize(merged[k]))}

\* C12: the catalog holds, for each identity key, the first record with
\* that key in the concatenation of the succeeded sources, duplicates within
\* a source or across sources being dropped, and the retained records keep
\* their first-seen order.
Cex_C12 ==
  [][LoadStep =>
       LET merged == Merged(fetches, 1)
           K == FirstOfIdentity(merged)
       IN  /\ Len(state'.data) = Cardinality(K)
           /\ \A p \in DOMAIN state'.data :
                state'.data[p] = normalize(merged[NthOf(K, p)])]_vars

\* the records of the sources whose fetch succeeded
SucceededRecords ==
  UNION {{fetches[i].value[k] : k \in DOMAIN fetches[i].value} :
           i \in {j \in Sources : fetches[j].status = "fulfilled"}}

\* C13: whatever the outcome of each source (success, network error, HTTP
\* error status, invalid JSON), the load ends without reporting a failure,
\* the catalog is built from exactly the records of the sources that
\* succeeded, and when every source failed the catalog is empty and the
\* status reports 0 loaded models.
Cex_C13 ==
  [][(pc = "fetching" /\ pc' # "fetching") =>
       /\ pc' = "ready"
       /\ status'.kind = "Loaded"
       /\ status'.n = Len(state'.data)
       /\ \A p \in DOMAIN state'.data :
            \E r \in SucceededRecords : state'.data[p] = normalize(r)
       /\ \A r \in SucceededRecords :
            \E r2 \in SucceededRecords :
              /\ RawKey(r2) = RawKey(r)
              /\ \E p \in DOMAIN state'.data : state'.data[p] = normalize(r2)
       /\ (\A i \in Sources : fetches[i].status = "rejected")
            => (state'.data = <<>> /\ status'.n = 0)]_vars

\* the records of the succeeded sources among the first n, in source order
RECURSIVE InSourceOrder(_)
InSourceOrder(n) ==
  IF n = 0 THEN <<>>
  ELSE InSourceOrder(n - 1)
         \o (IF fetches[n].status = "fulfilled" THEN fetches[n].value
             ELSE <<>>)

\* C14: the fetches run together, in any order of completion; the catalog
\* is built only when every fetch has settled and is determined by the
\* outcomes taken in the order of DATA_FILES; nothing is rendered before.
Thm_C14 ==
  /\ [](pc = "fetching" => (rows = <<>> /\ state.data = <<>>))
  /\ [][LoadStep =>
          /\ \A i \in Sources : fetches[i].status \in {"fulfilled", "rejected"}
          /\ LET merged == InSourceOrder(NumSources)
                 K == FirstSeen(merged)
             IN  state'.data =
                   [p \in 1..Cardinality(K) |-> normalize(merged[NthOf(K, p)])]
          /\ rows' # <<>> => state'.data # <<>>]_vars

\* both sources loaded, rows rendered: the seven records of the catalog
\* stand in source order whichever fetch completed first
Wit_C14 ==
  /\ pc = "ready"
  /\ Len(state.data) = 7
  /\ state.data[2].model_id = JStr("text-embedding-3")
  /\ state.data[4].model_id = JStr("GPT-4o-Audio")
  /\ rows # <<>>

(***************************************************************************)
(* Claims about applyFilterSort (Spec)                                     *)
(***************************************************************************)
\* the value a model is sorted by under the active sort key
SortValue(st, m) ==
  CASE st.sort.key = "cost" -> CostOf(st, m)
    [] st.sort.key = "monthly" -> MonthlyOf(st, CostOf(st, m))
    [] st.sort.key = "input" -> inPriceOf(m, st.useBatch)
    [] st.sort.key = "output" -> outPriceOf(m, st.useBatch)
    [] OTHER -> m[st.sort.key]

\* in the sorted rows no model with a null sort value stands before a
\* model with a non-null one
NullsLast(st) ==
  LET S == SortedRows(st)
  IN  \A p, q \in DOMAIN S :
        p < q => ~(/\ IsNullish(SortValue(st, st.data[S[p]]))
                   /\ ~IsNullish(SortValue(st, st.data[S[q]])))

DerivedKeys == {"cost", "monthly"}

\* C15: sorted by `cost` or `monthly`, every unpriced model (null cost)
\* stands after every priced model, ascending and descending.
Cex_C15 ==
  (pc = "ready" /\ state.sort.key \in DerivedKeys) => NullsLast(state)

\* C16: sorted by a plain field (the input/output price columns and
\* context_length included), every record whose value is null stands after
\* every record with a value, ascending and descending.
Cex_C16 ==
  (pc = "ready" /\ state.sort.key \in Entries.sort \ DerivedKeys)
    => NullsLast(state)

\* C17: the sort is stable, ascending and descending: two records with the
\* same value under the active sort key (equal values, both null, both
\* unpriced under a derived key) keep their relative order of the catalog.
Thm_C17 ==
  pc = "ready" =>
    LET S == SortedRows(state)
    IN  \A p, q \in DOMAIN S :
          (/\ p < q
           /\ SortValue(state, state.data[S[p]])
                = SortValue(state, state.data[S[q]]))
            => S[p] < S[q]

\* sorted by cost, descending: two unpriced models and two priced models
\* of equal cost, each pair in catalog order
Wit_C17 ==
  /\ pc = "ready"
  /\ state.sort = [key |-> "cost", dir |-> "desc"]
  /\ LET S == SortedRows(state)
         V(p) == SortValue(state, state.data[S[p]])
     IN  /\ \E p, q \in DOMAIN S :
               p < q /\ V(p) = JNull /\ V(q) = JNull /\ S[p] < S[q]
         /\ \E p, q \in DOMAIN S :
               p < q /\ V(p).t = "num" /\ V(p) = V(q) /\ S[p] < S[q]
         /\ \E p, q \in DOMAIN S : V(p).t = "num" /\ V(q).t = "num" /\ V(p) # V(q)

\* provider, model name and model id of a model, concatenated with blanks
\* and lowercased
SearchableText(m) ==
  toLowerCase(Chars[m.provider.s] \o <<" ">> \o Chars[m.model_name.s]
                \o <<" ">> \o Chars[m.model_id.s])

\* the lowercased search text is a substring of the concatenated fields, or
\* of the stringified context length
MatchesConcatenation(m, text) ==
  \/ includes(SearchableText(m), toLowerCase(Chars[text]))
  \/ (Truthy(m.context_length)
        /\ includes(ToStr(m.context_length), toLowerCase(Chars[text])))

\* C18: with a non-empty search text the text filter keeps exactly the
\* non-excluded records whose concatenated provider, model name and model
\* id (or stringified context length) contain the lowercased search text,
\* so a text spanning two fields matches; an empty text drops nothing.
Cex_C18 ==
  pc = "ready" =>
    LET kept == {SearchedRows(state)[p] : p \in DOMAIN SearchedRows(state)}
        unfiltered == {i \in DOMAIN state.data : ~state.data[i].is_filtered}
    IN  kept = IF state.filterText = "" THEN unfiltered
               ELSE {i \in unfiltered :
                       MatchesConcatenation(state.data[i], state.filterText)}

\* the elements of a sequence
Range(seq) == {seq[p] : p \in DOMAIN seq}

\* x costs at most y, a null cost counting as the highest
CostAtMost(x, y) ==
  IsNullish(y) \/ (~IsNullish(x) /\ x.n <= y.n)

Min(a, b) == IF a < b THEN a ELSE b

\* C19: with a top-N bound the query returns at most N records, and they
\* are N lowest-cost records (current mode, usage and cache factor, unpriced
\* counting as most expensive) among those that passed the category
\* exclusion and the text filter, whatever the display sort.
Thm_C19 ==
  (pc = "ready" /\ state.topN # "all") =>
    LET Q == QueryRows(state)
        passed == Range(SearchedRows(state))
        n == ParseDigits(Chars[state.topN])
    IN  /\ Len(Q) = Min(n, Cardinality(passed))
        /\ Cardinality(Range(Q)) = Len(Q)
        /\ Range(Q) \subseteq passed
        /\ \A i \in Range(Q) : \A j \in passed \ Range(Q) :
             CostAtMost(CostOf(state, state.data[i]),
                        CostOf(state, state.data[j]))

\* top 2 of five models shown by provider, descending: the two returned
\* are not the first two of the display order, and a priced model is left out
Wit_C19 ==
  /\ pc = "ready"
  /\ state.topN = "2"
  /\ state.sort = [key |-> "provider", dir |-> "desc"]
  /\ Len(SortedRows(state)) = 5
  /\ Len(QueryRows(state)) = 2
  /\ Range(QueryRows(state)) # {SortedRows(state)[1], SortedRows(state)[2]}
  /\ \E j \in Range(SortedRows(state)) \ Range(QueryRows(state)) :
       ~IsNullish(CostOf(state, state.data[j]))

\* the place of a model in the rows as sorted for display
DisplayPlace(st, i) ==
  CHOOSE p \in DOMAIN SortedRows(st) : SortedRows(st)[p] = i

\* C20: the top-N pass leaves the display order alone: the retained records
\* are rendered in the order of the chosen sort key and direction, not in
\* ascending-cost order.
Cex_C20 ==
  (pc = "ready" /\ state.topN # "all") =>
    LET Q == QueryRows(state)
    IN  \A p, q \in DOMAIN Q :
          p < q => DisplayPlace(state, Q[p]) < DisplayPlace(state, Q[q])

\* the settings that are persisted
SettingsOf(st) ==
  [in |-> st.globalTokens.in, cached |-> st.globalTokens.cached,
   out |-> st.globalTokens.out, rate |-> st.rateValue, batch |-> st.useBatch]

\* the settings the claim gives as defaults
DefaultSettings ==
  [in |-> 1000, cached |-> 0, out |-> 500, rate |-> 100, batch |-> FALSE]

\* C21: with nothing stored (and no URL parameter) the settings are input
\* 1000, cached 0, output 500, rate 100, Standard; and a reload of the page
\* restores exactly the settings the page had when it was left, a token
\* count or rate of 0 and a switch back to Standard included.
Cex_C21 ==
  [][ /\ (pc = "fetching" /\ url = NoUrl /\ ~storage.saved)
         => SettingsOf(state) = DefaultSettings
      /\ (pc = "ready" /\ pc' = "fetching")
         => SettingsOf(state') = SettingsOf(state) ]_vars

\* the cost cells of the table row tr were computed with the factor of the
\* state, for a model of the catalog that has the row's key
CellsUseStateFactor(st, tr) ==
  \E i \in DOMAIN st.data :
    /\ ModelKey(st.data[i]) = tr.key
    /\ tr.stdCost = fmt(calcCostWithCachedLegacy(RowTokens(tr), st.data[i],
                                                 FALSE, st.cacheFactor))
    /\ tr.batchCost = fmt(calcCostWithCachedLegacy(RowTokens(tr), st.data[i],
                                                   TRUE, st.cacheFactor))

\* C22: in every state the UI events reach, entries into the cache-factor
\* field that are not numbers, negative or above 1 included, the factor
\* handed to the calculator (the one every cost cell was computed with) lies
\* in [0, 1] and is 0.5 as long as the field is untouched; the calculator
\* applies the factor it is given, in or out of that range, without
\* clamping it.
Thm_C22 ==
  /\ state.cacheFactor.t = "num"
  /\ 0 <= state.cacheFactor.n /\ state.cacheFactor.n <= FactorDen
  /\ els.cacheFactor = Empty => state.cacheFactor = JNum(DefaultCacheFactor)
  /\ pc = "ready" =>
       /\ \A p \in DOMAIN rows : CellsUseStateFactor(state, rows[p])
       /\ \A p \in DOMAIN rows : \A f \in {0 - FactorDen, 2 * FactorDen} :
            LET m == state.data[rows[p].idx]
                tokens == RowTokens(rows[p])
                given == calcCostWithCachedLegacy(tokens, m, FALSE, JNum(f))
                none == calcCostWithCachedLegacy(tokens, m, FALSE, JNum(0))
            IN  Truthy(m.input) =>
                  given.n = none.n + tokens.cached * m.input.n * f

\* 2 was typed into the field, which shows 1.00, and 1 is the factor in
\* use, with cached tokens in a priced row whose cost depends on it
Wit_C22 ==
  /\ pc = "ready"
  /\ els.cacheFactor = FactorText(JNum(FactorDen))
  /\ state.cacheFactor = JNum(FactorDen)
  /\ \E p \in DOMAIN rows :
       /\ Truthy(state.data[rows[p].idx].input)
       /\ RowTokens(rows[p]).cached > 0
       /\ rows[p].stdCost #
            fmt(calcCostWithCachedLegacy(RowTokens(rows[p]),
                  state.data[rows[p].idx], FALSE, JNum(2 * FactorDen)))

\* C23: once the load has built the catalog, no event of the page (header
\* click, search text, top-N choice, token, rate or mode change, preset,
\* reset, with the recalculation and rendering they end with) changes it: its length, its order and every field of every model
\* stay as built, and the rendered rows refer to models of that catalog.
Thm_C23 ==
  [][ (pc = "ready" /\ pc' = "ready") =>
        /\ state'.data = state.data
        /\ \A p \in DOMAIN rows' :
             /\ rows'[p].idx \in DOMAIN state.data
             /\ rows'[p].key = ModelKey(state.data[rows'[p].idx]) ]_vars

\* the table shows two models by descending cost, in an order that is not
\* the catalog's, after a preset was applied
Wit_C23 ==
  /\ pc = "ready"
  /\ state.sort = [key |-> "cost", dir |-> "desc"]
  /\ els.inputTokens = JNum(PRESETS.batch.in)
  /\ Len(rows) = 2
  /\ rows[1].idx > rows[2].idx
  /\ Len(state.data) = 3

\* the symbol of a currency: "$" for USD, the currency's own otherwise
\* (written as its code)
CurrencySymbol(currency) ==
  IF currency = JStr("USD") THEN "$" ELSE currency.s

\* the cell text the claim describes for the value v of a row of model m:
\* the text of the code with the symbol of the model's currency
ClaimedCostText(v, m) ==
  IF IsNullish(v) THEN fmt(v)
  ELSE [fmt(v) EXCEPT !.symbol = CurrencySymbol(m.currency)]

\* C24: a null cost is shown as the dash; a numeric cost is shown with 2
\* decimals when it is at least 10 and with 3 otherwise, after the currency
\* symbol of the record ("$" for USD, the default currency).
Cex_C24 ==
  pc = "ready" =>
    \A p \in DOMAIN rows :
      LET m == state.data[rows[p].idx]
      IN  /\ rows[p].costText = ClaimedCostText(rows[p].cost, m)
          /\ rows[p].monthlyText = ClaimedCostText(rows[p].monthly, m)

\* which model each table row shows and which top-3 mark it carries
ShownModels(trs) ==
  IF trs = <<>> THEN <<>>
  ELSE [p \in 1..Len(trs) |-> [idx |-> trs[p].idx, rank |-> trs[p].rank]]

\* C25: after every handler has finished, the rendered rows (which models,
\* in which order, with which top-3 marks) are the rows a fresh
\* applyFilterSort yields for the current settings, also after a token or
\* rate change under a cost or monthly sort or under a top-N bound.
Cex_C25 ==
  pc = "ready" => ShownModels(rows) = ShownModels(applyFilterSort(state))

\* the token counts, mode and rate of a preset, as the state holds them
PresetSettings(preset) ==
  [in |-> preset.in, cached |-> preset.cached, out |-> preset.out,
   rate |-> preset.rpd, batch |-> preset.batch]

\* C26: after a preset is applied (button or keys 1-5, the saved custom
\* preset included) or the inputs are reset with `r`, the state equals what
\* the fields show: the preset's token counts (1000/0/500 after a reset),
\* its batch flag, and its rate (100 after a reset).
Cex_C26 ==
  [][ /\ \A k \in DOMAIN PresetKeys :
           (PresetClick(PresetKeys[k]) /\ PresetNamed(PresetKeys[k]) # JNull) =>
             SettingsOf(state') = PresetSettings(PresetNamed(PresetKeys[k]))
      /\ ResetKey =>
           SettingsOf(state') = [DefaultSettings EXCEPT !.batch = state.useBatch]
    ]_vars

\* the URL carries at least one of the parameters
HasParams(u) ==
  u.mode \/ \E f \in {"in", "cached", "out", "rpd"} : u[f] # JNull

\* the URL value if the parameter is present, else the saved value if
\* there is one, else the default
UrlElseSavedElseDefault(urlValue, hasSaved, savedValue, fallback) ==
  IF urlValue # JNull THEN urlValue.n
  ELSE IF hasSaved THEN savedValue
  ELSE fallback

\* the settings the claim describes for a start with URL u and storage sv
ClaimedStartSettings(u, sv) ==
  [in |-> UrlElseSavedElseDefault(u.in, sv.saved, sv.globalTokens.in, 1000),
   cached |-> UrlElseSavedElseDefault(u.cached, sv.saved,
                                      sv.globalTokens.cached, 0),
   out |-> UrlElseSavedElseDefault(u.out, sv.saved, sv.globalTokens.out, 500),
   rate |-> UrlElseSavedElseDefault(u.rpd, sv.saved, sv.rateValue, 100),
   batch |-> IF HasParams(u) THEN u.mode ELSE sv.saved /\ sv.useBatch]

\* C27: on startup each setting comes from the URL parameter if present,
\* else from the saved value, else from the default; a present parameter
\* wins over a saved value, `cached=0` and `rpd=0` included, and so does a
\* URL with parameters but without `mode=batch`.
Cex_C27 ==
  pc = "fetching" => SettingsOf(state) = ClaimedStartSettings(url, storage)

\* the other direction
Flipped(dir) == IF dir = "asc" THEN "desc" ELSE "asc"

\* C28: header clicks drive a machine over (key, direction): a click on the
\* header of the current key flips the direction and keeps the key; a click
\* on another header sets that key, ascending; a click on a header without
\* data-sort changes nothing; the direction is always asc or desc, starting
\* from (provider, asc); nothing else changes the sort, and every accepted
\* click re-runs the query.
Thm_C28 ==
  [][ /\ state.sort.dir \in {"asc", "desc"}
      /\ state'.sort.dir \in {"asc", "desc"}
      /\ pc = "fetching" => state.sort = [key |-> "provider", dir |-> "asc"]
      /\ SortClick("") => state' = state /\ rows' = rows
      /\ SortClick(state.sort.key) =>
           state'.sort = [key |-> state.sort.key,
                          dir |-> Flipped(state.sort.dir)]
      /\ state'.sort # state.sort =>
           LET key == state'.sort.key
           IN  /\ key \in Entries.sort
               /\ state'.sort.dir = IF key = state.sort.key
                                    THEN Flipped(state.sort.dir) ELSE "asc"
               /\ state' = [state EXCEPT !.sort = state'.sort]
               /\ rows' = applyFilterSort(state')
               /\ SortClick(key)
    ]_vars

\* two clicks on the cost header: the table is shown by descending cost
Wit_C28 ==
  /\ pc = "ready"
  /\ state.sort = [key |-> "cost", dir |-> "desc"]
  /\ Len(rows) >= 2
  /\ rows = applyFilterSort(state)
  /\ rows[1].idx > rows[2].idx

\* C29: the earlier calculators resolve Batch prices as batch-or-null: on a
\* model with no batch price their Batch cost is null, where the latest
\* calculators return the Standard cost; when both batch prices are there,
\* and in Standard mode on every model, earlier and latest calculators
\* return the same result for every usage and cache factor.
Thm_C29 ==
  \A k \in DOMAIN CalcFactors :
    cout[k].called =>
      LET m == cin.m
          noBatch == IsNullish(m.batch_input) /\ IsNullish(m.batch_output)
          bothBatch == ~IsNullish(m.batch_input) /\ ~IsNullish(m.batch_output)
      IN  /\ (cin.useBatch /\ noBatch) =>
               /\ cout[k].legacy = JNull
               /\ cout[k].plainLegacy = JNull
               /\ cout[k].result =
                    calcCostWithCached(cin.tokens, m, FALSE, CalcFactors[k])
               /\ cout[k].plain =
                    calcCost(cin.tokens.in, cin.tokens.out, m, FALSE)
          /\ (~cin.useBatch \/ bothBatch) =>
               /\ cout[k].legacy = cout[k].result
               /\ cout[k].plainLegacy = cout[k].plain

\* Batch mode on a model priced 2/4 without batch prices: null from the
\* earlier calculators, the Standard cost from the latest
Wit_C29 ==
  /\ cout[1].called
  /\ cin.useBatch
  /\ cin.m = PriceModel(JNum(2), JNum(4), JNull, JNull)
  /\ cin.tokens = [in |-> 1000, cached |-> 1000, out |-> 500]
  /\ cout[1].legacy = JNull
  /\ cout[1].plainLegacy = JNull
  /\ CostIs(cout[1].result, 5000 * FactorDen)
  /\ CostIs(cout[1].plain, 4000 * FactorDen)

\* the row's key belongs to one model of the catalog only
KeyIsUnique(st, tr) ==
  Cardinality({i \in DOMAIN st.data : ModelKey(st.data[i]) = tr.key}) = 1

\* the row shows the mode-resolved prices of model m and the cost
\* calcCostWithCached computes from them
ShowsPricesOf(st, tr, m) ==
  LET inP == ExpectedPrice(m.input, m.batch_input, st.useBatch)
      outP == ExpectedPrice(m.output, m.batch_output, st.useBatch)
  IN  /\ tr.inputPrice = inP
      /\ tr.outputPrice = outP
      /\ tr.cost = IF IsNullish(inP) /\ IsNullish(outP) THEN JNull
                   ELSE CostValue(st.globalTokens, inP, outP,
                                       st.cacheFactor.n)

\* the rows sorted by the input or output column are in the order of the
\* mode-resolved prices, as far as both of two rows have one
InPriceOrder(st) ==
  LET S == SortedRows(st)
      price(i) ==
        IF st.sort.key = "input"
        THEN ExpectedPrice(st.data[i].input, st.data[i].batch_input,
                           st.useBatch)
        ELSE ExpectedPrice(st.data[i].output, st.data[i].batch_output,
                           st.useBatch)
  IN  \A p, q \in DOMAIN S :
        (p < q /\ ~IsNullish(price(S[p])) /\ ~IsNullish(price(S[q]))) =>
          IF st.sort.dir = "asc" THEN price(S[p]).n <= price(S[q]).n
          ELSE price(S[p]).n >= price(S[q]).n

\* C30: in both pricing modes, after a full render and after
\* recalcAllRows, the input and output prices a row shows are the
\* mode-resolved prices (batch if non-null, else standard, under Batch;
\* standard under Standard) that its cost is computed from, and the sort
\* by the input or output column compares the same prices.
Thm_C30 ==
  pc = "ready" =>
    /\ \A p \in DOMAIN rows :
         /\ \E i \in DOMAIN state.data :
              /\ ModelKey(state.data[i]) = rows[p].key
              /\ ShowsPricesOf(state, rows[p], state.data[i])
         /\ KeyIsUnique(state, rows[p]) =>
              ShowsPricesOf(state, rows[p], state.data[rows[p].idx])
    /\ LET fresh == applyFilterSort(state)
       IN  \A p \in DOMAIN fresh :
             ShowsPricesOf(state, fresh[p], state.data[fresh[p].idx])
    /\ state.sort.key \in {"input", "output"} => InPriceOrder(state)

\* Batch mode, sorted by input price, after a recalculation: a row shows
\* its batch input price next to the standard output price it falls back to
Wit_C30 ==
  /\ pc = "ready"
  /\ state.useBatch
  /\ state.sort.key = "input"
  /\ state.globalTokens.cached = 1000
  /\ rows # applyFilterSort(state)
  /\ \E p \in DOMAIN rows :
       LET m == state.data[rows[p].idx]
       IN  /\ KeyIsUnique(state, rows[p])
           /\ rows[p].inputPrice = m.batch_input
           /\ m.batch_input # m.input
           /\ IsNullish(m.batch_output)
           /\ rows[p].outputPrice = m.output
           /\ ~IsNullish(m.output)

====
